---- MODULE Spec2Model ----
(***************************************************************************)
(* Model of video-to-ascii-art: the command-line player (src/main.py), the *)
(* frame source (src/video_processor.py) and the audio track with its      *)
(* synchronizer (src/audio_processor.py).                                  *)
(*                                                                         *)
(* The main thread runs main() -> ASCIIVideoPlayer.__init__ -> play() or   *)
(* export_frames().  play_async() starts a daemon worker thread that runs  *)
(* playback_thread(); the worker and the main thread share is_playing,     *)
(* playback_start_time and playback_process without any lock, so every     *)
(* statement that writes or tests one of them is a step of its own.  Time  *)
(* is a discrete clock (now) read by time.time(); its unit is half a frame *)
(* duration.                                                               *)
(***************************************************************************)
EXTENDS Integers, Sequences, FiniteSets, TLC

\* ---------------------------------------------------------------- bounds
MaxTime == 2
MaxFrames == 2
MaxWorkers == 1
MaxSkip == 1
MaxCloses == 2
MaxRow == 2
MaxCount == 8
MaxCalls == 3

\* ------------------------------------------------------------- constants
\* self.frame_duration (1/fps), in clock units.
frame_duration == 2

\* None for a timestamp (start_time, playback_start_time).
NoTime == 0 - 1

Workers == 1..MaxWorkers

\* No user interrupt has been delivered.
NoSignal == [at |-> "none", stops |-> 0]
\* speed_multiplier values (args.speed > 0); both divide frame_duration.
Speeds == {1, 2}

\* video_path: an existing file the decoder opens, a camera index, a path
\* that does not exist, a source the decoder cannot open.
Sources == {"file", "camera", "missing", "unopenable"}

\* How extract_audio ends.
ExtractOutcomes ==
    {"ok", "missing", "version_timeout", "version_nonzero",
     "extract_timeout", "extract_nonzero"}
ExtractFailures == ExtractOutcomes \ {"ok"}

\* The candidate players of playback_thread, per sys.platform, in order.
Platforms == {"win32", "darwin", "linux"}
Candidates(p) ==
    CASE p = "win32" -> <<"ffplay", "powershell">>
      [] p = "darwin" -> <<"afplay">>
      [] OTHER -> <<"ffplay", "aplay", "paplay", "mpg123">>

VARIABLES
    now,                 \* time.time()
    mainPc,              \* position of the main thread
    stopRet,             \* the caller stop() returns to
    pending,             \* exception being propagated through finally
    signal,              \* the user interrupt: where the main thread was and
                         \* the stop() calls made when it arrived
    source,              \* args.video_file
    audio_enabled,       \* self.audio_enabled
    export,              \* args.export is set
    speed,               \* self.speed
    skip,                \* self.skip
    audio_processor,     \* self.audio_processor is not None
    extractResult,       \* how extract_audio ended ("none": not called)
    audio_file_path,     \* self.audio_file_path is set
    fileExists,          \* os.path.exists(self.audio_file_path)
    is_playing,          \* AudioProcessor.is_playing
    playback_start_time, \* AudioProcessor.playback_start_time
    playback_process,    \* AudioProcessor.playback_process (0: None)
    wpc,                 \* position of each playback worker
    wCands,              \* candidates the worker has not tried yet
    waitOn,              \* the process the worker's wait() blocks on
    wDone,               \* what the worker has written so far
    procState,           \* state of the player process each worker launched
    start_time,          \* AudioSynchronizer.start_time
    frame_count,         \* AudioSynchronizer.frame_count
    iterStart,           \* play(): start_time of the iteration
    processing_time,     \* play(): processing_time of the iteration
    actual_time,         \* wait_for_frame: actual_time
    wakeAt,              \* time.sleep(sleep_time) returns at this time
    calls,               \* wait_for_frame calls completed since start()
    capAttr,             \* VideoProcessor.cap has been assigned
    capOpen,             \* the decoder handle is open (not released)
    closeCalls,          \* VideoProcessor.close() invocations
    released,            \* times the decoder was released
    closeRaised,         \* a close() call raised
    stream,              \* frames the decoder can deliver
    decoded,             \* frames read from the decoder, cap.read()
    out,                 \* the (frame_num, frame) pairs get_frames yielded;
                         \* a frame is named by its position in the stream
    frame_num,           \* get_frames: frame_num
    rendered,            \* frames printed by play()/written by export
    yielded,             \* frames yielded by get_frames
    stopCalls,           \* AudioProcessor.stop() invocations after start()
    charset,             \* the charset name given to ASCIIConverter
    sample,              \* a pixel of the resized grey frame (uint8)
    ascii_str,           \* frame_to_ascii: index and glyph of that pixel
    ascii_arr,           \* get_ascii_array: index and glyph of that pixel
    use_256_colors,      \* ColorProcessor.use_256_colors
    use_truecolor,       \* ColorProcessor.use_truecolor
    rgb,                 \* a pixel of the resized colour frame
    colored,             \* colorize_char: what it returned for that pixel
    call,                \* a function called on its own: its arguments
    returned             \* what that call returned or raised

envVars == <<source, audio_enabled, export, speed, skip>>
audioVars ==
    <<audio_processor, extractResult, audio_file_path, fileExists,
      is_playing, playback_start_time, playback_process>>
workerVars == <<wpc, wCands, waitOn, wDone, procState>>
syncVars ==
    <<start_time, frame_count, iterStart, processing_time, actual_time,
      wakeAt, calls>>
decoderVars == <<capAttr, capOpen, closeCalls, released, closeRaised>>
videoVars ==
    <<decoderVars, stream, decoded, out, frame_num, rendered, yielded>>
mainVars == <<mainPc, stopRet, pending, signal, stopCalls>>
applyVars == <<call, returned>>
convertVars ==
    <<charset, sample, ascii_str, ascii_arr, use_256_colors, use_truecolor,
      rgb, colored, applyVars>>
vars ==
    <<now, mainVars, envVars, audioVars, workerVars, syncVars, videoVars,
      convertVars>>

NoResult == [idx |-> 0 - 1, glyph |-> 0 - 1]
\* No function is called on its own.
NoCall == [fn |-> "none"]
\* No conversion is under way: the converter has the default charset, the
\* colour processor is the one the player builds, nothing was converted.
PixelIdle ==
    /\ charset = "standard"
    /\ sample = 0
    /\ ascii_str = NoResult
    /\ ascii_arr = NoResult
    /\ use_256_colors = TRUE
    /\ use_truecolor = TRUE
    /\ rgb = <<0, 0, 0>>
    /\ colored = <<>>
ConvertIdle ==
    /\ PixelIdle
    /\ call = NoCall
    /\ returned = NoCall

Init ==
    /\ now = 0
    /\ mainPc = "main"
    /\ stopRet = "none"
    /\ pending = "none"
    /\ signal = NoSignal
    /\ source \in Sources
    /\ audio_enabled \in BOOLEAN
    /\ export \in BOOLEAN
    /\ speed \in Speeds
    /\ skip \in 0..MaxSkip
    /\ audio_processor = FALSE
    /\ extractResult = "none"
    /\ audio_file_path = FALSE
    /\ fileExists = FALSE
    /\ is_playing = FALSE
    /\ playback_start_time = NoTime
    /\ playback_process = 0
    /\ wpc = [w \in Workers |-> "idle"]
    /\ wCands = [w \in Workers |-> <<>>]
    /\ waitOn = [w \in Workers |-> 0]
    /\ wDone = [w \in Workers |-> {}]
    /\ procState = [w \in Workers |-> "none"]
    /\ start_time = NoTime
    /\ frame_count = 0
    /\ iterStart = 0
    /\ processing_time = 0
    /\ actual_time = 0
    /\ wakeAt = 0
    /\ calls = 0
    /\ capAttr = FALSE
    /\ capOpen = FALSE
    /\ closeCalls = 0
    /\ released = 0
    /\ closeRaised = FALSE
    /\ stream = MaxFrames
    /\ decoded = 0
    /\ out = <<>>
    /\ frame_num = 0
    /\ rendered = 0
    /\ yielded = 0
    /\ stopCalls = 0
    /\ ConvertIdle

\* ------------------------------------------------------- pure helpers
\* wait_for_frame: expected_time = frame_count * frame_duration / speed.
ExpectedTime(fc, sp) == (fc * frame_duration) \div sp

\* wait_for_frame: sleep_time = expected_time - actual_time - processing_time.
SleepTime(fc, sp, actual, proc) == ExpectedTime(fc, sp) - actual - proc

\* wait_for_frame: `if sleep_time > 0: time.sleep(sleep_time)`.
Sleeps(st) == st > 0

\* A scheduler that skips a frame to catch up when it is behind schedule.
NextFrameCountCatchUp(fc) ==
    IF now - start_time > ExpectedTime(fc + 1, speed) THEN fc + 2 ELSE fc + 1

\* wait_for_frame: `self.frame_count += 1`.
NextFrameCount(fc) == fc + 1

\* extract_audio: the outcomes after which self.audio_file_path is set (the
\* temporary file was created before the extraction command ran).
PathSetAfter(o) == o \in {"ok", "extract_timeout", "extract_nonzero"}

\* play_async: `not self.audio_file_path or not os.path.exists(...)`.
NoAudioFile == ~audio_file_path \/ ~fileExists

\* A get_current_playback_time that does not look at is_playing.
CurrentPlaybackTimeSinceStart ==
    IF playback_start_time = NoTime THEN 0 ELSE now - playback_start_time

\* get_current_playback_time.
CurrentPlaybackTime ==
    IF ~is_playing \/ playback_start_time = NoTime
    THEN 0
    ELSE now - playback_start_time

\* ------------------------------------------------------- main thread
\* VideoProcessor.__init__: a path that does not exist raises before
\* self.cap is assigned; a source the decoder cannot open raises after it;
\* an integer string is a camera index and skips the path check.
VideoProcessorInit ==
    /\ capAttr' = (source # "missing")
    /\ capOpen' = (source \in {"file", "camera"})

\* main(): the audio dependency check, then the player is constructed.
Main ==
    /\ mainPc = "main"
    /\ \E pydub \in BOOLEAN, ffmpeg \in BOOLEAN :
          IF audio_enabled /\ ~pydub
          THEN /\ mainPc' = "sysexit"
               /\ UNCHANGED audio_enabled
          ELSE /\ mainPc' = "construct"
               /\ audio_enabled' = (audio_enabled /\ ffmpeg)
    /\ UNCHANGED convertVars
    /\ UNCHANGED <<now, stopRet, pending, signal, stopCalls, source,
                   export, speed, skip, audioVars, workerVars, syncVars,
                   videoVars>>

\* ASCIIVideoPlayer.__init__: VideoProcessor, AudioProcessor and
\* extract_audio, AudioSynchronizer; any exception ends in sys.exit(1).
\* extract_audio creates the temporary file before it runs the extraction
\* command; a failed or killed command may leave that file or remove it.
Construct ==
    /\ mainPc = "construct"
    /\ VideoProcessorInit
    /\ IF ~capOpen'
       THEN /\ mainPc' = "sysexit"
            /\ UNCHANGED audioVars
       ELSE /\ IF ~audio_enabled
               THEN /\ mainPc' = "constructed"
                    /\ UNCHANGED audioVars
               ELSE \E pathExists \in BOOLEAN :
                      /\ source = "file" => pathExists
                      /\ IF ~pathExists
                         THEN /\ mainPc' = "sysexit"
                              /\ UNCHANGED audioVars
                         ELSE \E o \in ExtractOutcomes, kept \in BOOLEAN :
                                /\ o = "ok" => kept
                                /\ ~PathSetAfter(o) => kept
                                /\ mainPc' = "constructed"
                                /\ audio_processor' = TRUE
                                /\ extractResult' = o
                                /\ audio_file_path' = PathSetAfter(o)
                                /\ fileExists' = (PathSetAfter(o) /\ kept)
                                /\ UNCHANGED <<is_playing, playback_start_time,
                                               playback_process>>
    /\ UNCHANGED convertVars
    /\ UNCHANGED <<now, stopRet, pending, signal, stopCalls, envVars,
                   workerVars, syncVars, closeCalls, released, closeRaised,
                   stream, decoded, out, frame_num, rendered, yielded>>

\* A start() that asks for playback whenever it has an audio processor.
SyncStartIgnoresPlayAudio ==
    /\ mainPc = "constructed"
    /\ ~export
    /\ start_time' = now
    /\ frame_count' = 0
    /\ calls' = 0
    /\ mainPc' = IF audio_processor THEN "play_async" ELSE "try_enter"
    /\ UNCHANGED convertVars
    /\ UNCHANGED <<now, stopRet, pending, signal, stopCalls, envVars,
                   audioVars, workerVars, iterStart, processing_time,
                   actual_time, wakeAt, videoVars>>

\* play(): the banner, then AudioSynchronizer.start(play_audio):
\* `if play_audio and self.audio_processor: self.audio_processor.play_async()`.
SyncStart ==
    /\ mainPc = "constructed"
    /\ ~export
    /\ start_time' = now
    /\ frame_count' = 0
    /\ calls' = 0
    /\ mainPc' = IF audio_enabled /\ audio_processor
                 THEN "play_async"
                 ELSE "try_enter"
    /\ UNCHANGED convertVars
    /\ UNCHANGED <<now, stopRet, pending, signal, stopCalls, envVars,
                   audioVars, workerVars, iterStart, processing_time,
                   actual_time, wakeAt, videoVars>>

\* play_async(): without an audio file it warns and returns; otherwise it
\* calls stop() and goes on to start the worker.
PlayAsync ==
    /\ mainPc = "play_async"
    /\ IF NoAudioFile
       THEN /\ mainPc' = "try_enter"
            /\ UNCHANGED stopRet
       ELSE /\ mainPc' = "stop1"
            /\ stopRet' = "play_async"
    /\ UNCHANGED convertVars
    /\ UNCHANGED <<now, pending, signal, stopCalls, envVars, audioVars,
                   workerVars, syncVars, videoVars>>

\* stop(): `self.is_playing = False`.
Stop1 ==
    /\ mainPc = "stop1"
    /\ is_playing' = FALSE
    /\ stopCalls' = stopCalls + 1
    /\ mainPc' = "stop2"
    /\ UNCHANGED convertVars
    /\ UNCHANGED <<now, stopRet, pending, signal, envVars,
                   audio_processor, extractResult, audio_file_path,
                   fileExists, playback_start_time, playback_process,
                   workerVars, syncVars, videoVars>>

\* Where stop() returns to: play_async, a caller of stop() itself, or
\* cleanup().
AfterStop ==
    CASE stopRet = "play_async" -> "thread_start"
      [] stopRet = "stop" -> "try_enter"
      [] OTHER -> "unlink"

\* stop(): `if self.playback_process:` terminate(), wait(timeout=1), kill().
Stop2 ==
    /\ mainPc = "stop2"
    /\ IF playback_process = 0
       THEN /\ mainPc' = AfterStop
            /\ UNCHANGED procState
       ELSE /\ mainPc' = "stop3"
            /\ procState' =
                 [procState EXCEPT ![playback_process] =
                    IF @ = "running" THEN "killed" ELSE @]
    /\ UNCHANGED convertVars
    /\ UNCHANGED <<now, stopRet, pending, signal, stopCalls, envVars,
                   audioVars, wpc, wCands, waitOn, wDone, syncVars,
                   videoVars>>

\* stop(): `self.playback_process = None`.
Stop3 ==
    /\ mainPc = "stop3"
    /\ playback_process' = 0
    /\ mainPc' = AfterStop
    /\ UNCHANGED convertVars
    /\ UNCHANGED <<now, stopRet, pending, signal, stopCalls, envVars,
                   audio_processor, extractResult, audio_file_path,
                   fileExists, is_playing, playback_start_time, workerVars,
                   syncVars, videoVars>>

\* play_async: the worker thread is created and started.
ThreadStart ==
    /\ mainPc = "thread_start"
    /\ \E w \in DOMAIN wpc :
          /\ wpc[w] = "idle"
          /\ \A v \in DOMAIN wpc : v < w => wpc[v] # "idle"
          /\ wpc' = [wpc EXCEPT ![w] = "ready"]
    /\ mainPc' = "try_enter"
    /\ UNCHANGED convertVars
    /\ UNCHANGED <<now, stopRet, pending, signal, stopCalls, envVars,
                   audioVars, wCands, waitOn, wDone, procState, syncVars,
                   videoVars>>

\* play(): start() has returned, the try block is entered.
TryEnter ==
    /\ mainPc = "try_enter"
    /\ mainPc' = "loop_next"
    /\ UNCHANGED convertVars
    /\ UNCHANGED <<now, stopRet, pending, signal, stopCalls, envVars,
                   audioVars, workerVars, syncVars, videoVars>>

\* get_frames: `skip > 0 and frame_num % (skip + 1) != 0`.
Skipped(n, sk) == sk > 0 /\ n % (sk + 1) # 0

\* A get_frames whose skipped frames take no number.
GetFramesReadSkipUnnumbered(yieldPc, endPc) ==
    \E ret \in BOOLEAN :
       /\ ret => (capOpen /\ decoded < stream)
       /\ IF ~ret
          THEN /\ mainPc' = endPc
               /\ UNCHANGED <<decoded, out, frame_num, yielded>>
          ELSE /\ decoded' = decoded + 1
               /\ IF Skipped(frame_num, skip)
                  THEN /\ UNCHANGED <<mainPc, out, frame_num, yielded>>
                  ELSE /\ mainPc' = yieldPc
                       /\ frame_num' = frame_num + 1
                       /\ out' = Append(out, <<frame_num, decoded>>)
                       /\ yielded' = yielded + 1

\* A get_frames that reads again when the decoder reports no frame although
\* it is open and frames are left.
GetFramesReadRetrying(yieldPc, endPc) ==
    \E ret \in BOOLEAN :
       /\ ret => (capOpen /\ decoded < stream)
       /\ IF ~ret
          THEN /\ mainPc' = IF capOpen /\ decoded < stream
                            THEN mainPc ELSE endPc
               /\ UNCHANGED <<decoded, out, frame_num, yielded>>
          ELSE /\ decoded' = decoded + 1
               /\ frame_num' = frame_num + 1
               /\ IF Skipped(frame_num, skip)
                  THEN /\ UNCHANGED <<mainPc, out, yielded>>
                  ELSE /\ mainPc' = yieldPc
                       /\ out' = Append(out, <<frame_num, decoded>>)
                       /\ yielded' = yielded + 1

\* get_frames: one cap.read().  The decoder reports no frame at the end of
\* the stream, on a decode failure or once it has been released, and the
\* generator ends; a skipped frame is counted and the next one is read;
\* any other frame is yielded with its number.
GetFramesRead(yieldPc, endPc) ==
    \E ret \in BOOLEAN :
       /\ ret => (capOpen /\ decoded < stream)
       /\ IF ~ret
          THEN /\ mainPc' = endPc
               /\ UNCHANGED <<decoded, out, frame_num, yielded>>
          ELSE /\ decoded' = decoded + 1
               /\ frame_num' = frame_num + 1
               /\ IF Skipped(frame_num, skip)
                  THEN /\ UNCHANGED <<mainPc, out, yielded>>
                  ELSE /\ mainPc' = yieldPc
                       /\ out' = Append(out, <<frame_num, decoded>>)
                       /\ yielded' = yielded + 1

\* play(): `for frame_idx, frame in self.processor.get_frames(...)`, and
\* `start_time = time.time()` of the iteration; when the stream is over, the
\* "Playback Complete" report, which leads to the finally block.
LoopNext ==
    /\ mainPc = "loop_next"
    /\ GetFramesRead("render", "finally")
    /\ iterStart' = IF mainPc' = "render" THEN now ELSE iterStart
    /\ UNCHANGED convertVars
    /\ UNCHANGED <<now, stopRet, pending, signal, stopCalls, envVars,
                   audioVars, workerVars, start_time, frame_count,
                   processing_time, actual_time, wakeAt, calls, decoderVars,
                   stream, rendered>>

\* play(): convert and print the frame, measure processing_time.  An error
\* raised while converting or printing propagates through the finally block.
Render ==
    /\ mainPc = "render"
    /\ \E ok \in BOOLEAN :
          IF ok
          THEN /\ rendered' = rendered + 1
               /\ processing_time' = now - iterStart
               /\ mainPc' = "wf_check"
               /\ UNCHANGED pending
          ELSE /\ pending' = "error"
               /\ mainPc' = "finally"
               /\ UNCHANGED <<rendered, processing_time>>
    /\ iterStart' = 0
    /\ UNCHANGED convertVars
    /\ UNCHANGED <<now, stopRet, signal, stopCalls, envVars, audioVars,
                   workerVars, start_time, frame_count, actual_time, wakeAt,
                   calls, decoderVars, stream, decoded, out, frame_num,
                   yielded>>

\* A wait_for_frame that stamps start_time at every call.
WfCheckPlayingRestamps ==
    /\ mainPc = "wf_check"
    /\ start_time' = now
    /\ IF audio_processor /\ is_playing
       THEN /\ mainPc' = "wf_gcpt"
            /\ UNCHANGED actual_time
       ELSE /\ mainPc' = "wf_decide"
            /\ actual_time' = now - start_time'
    /\ UNCHANGED convertVars
    /\ UNCHANGED <<now, stopRet, pending, signal, stopCalls, envVars,
                   audioVars, workerVars, frame_count, iterStart,
                   processing_time, wakeAt, calls, videoVars>>

\* wait_for_frame: `if self.start_time is None`, then
\* `if self.audio_processor and self.audio_processor.is_playing` and, when
\* that fails, `actual_time = time.time() - self.start_time`.
WfCheckPlaying ==
    /\ mainPc = "wf_check"
    /\ start_time' = IF start_time = NoTime THEN now ELSE start_time
    /\ IF audio_processor /\ is_playing
       THEN /\ mainPc' = "wf_gcpt"
            /\ UNCHANGED actual_time
       ELSE /\ mainPc' = "wf_decide"
            /\ actual_time' = now - start_time'
    /\ UNCHANGED convertVars
    /\ UNCHANGED <<now, stopRet, pending, signal, stopCalls, envVars,
                   audioVars, workerVars, frame_count, iterStart,
                   processing_time, wakeAt, calls, videoVars>>

\* wait_for_frame: `actual_time = self.audio_processor.get_current_playback_time()`.
\* The test of line 267 and the subtraction of line 270 are one step: once
\* set, playback_start_time is never unset.
WfGetPlaybackTime ==
    /\ mainPc = "wf_gcpt"
    /\ actual_time' = CurrentPlaybackTime
    /\ mainPc' = "wf_decide"
    /\ UNCHANGED convertVars
    /\ UNCHANGED <<now, stopRet, pending, signal, stopCalls, envVars,
                   audioVars, workerVars, start_time, frame_count, iterStart,
                   processing_time, wakeAt, calls, videoVars>>

\* wait_for_frame: sleep_time, `if sleep_time > 0: time.sleep(sleep_time)`,
\* and without a sleep `self.frame_count += 1`.
WfSleep ==
    /\ mainPc = "wf_decide"
    /\ LET st == SleepTime(frame_count, speed, actual_time, processing_time)
       IN  IF Sleeps(st)
           THEN /\ mainPc' = "wf_sleeping"
                /\ wakeAt' = now + st
                /\ UNCHANGED <<frame_count, calls>>
           ELSE /\ mainPc' = "loop_next"
                /\ frame_count' = NextFrameCount(frame_count)
                /\ calls' = calls + 1
                /\ UNCHANGED wakeAt
    /\ processing_time' = 0
    /\ actual_time' = 0
    /\ UNCHANGED convertVars
    /\ UNCHANGED <<now, stopRet, pending, signal, stopCalls, envVars,
                   audioVars, workerVars, start_time, iterStart, videoVars>>

\* A scheduler whose wait also waits for the audio track to stop playing.
WfWakeJoinsAudio ==
    /\ mainPc = "wf_sleeping"
    /\ now >= wakeAt
    /\ ~is_playing
    /\ mainPc' = "loop_next"
    /\ frame_count' = frame_count + 1
    /\ calls' = calls + 1
    /\ wakeAt' = 0
    /\ UNCHANGED convertVars
    /\ UNCHANGED <<now, stopRet, pending, signal, stopCalls, envVars,
                   audioVars, workerVars, start_time, iterStart,
                   processing_time, actual_time, videoVars>>

\* wait_for_frame: time.sleep returns, `self.frame_count += 1`.
WfWake ==
    /\ mainPc = "wf_sleeping"
    /\ now >= wakeAt
    /\ mainPc' = "loop_next"
    /\ frame_count' = NextFrameCount(frame_count)
    /\ calls' = calls + 1
    /\ wakeAt' = 0
    /\ UNCHANGED convertVars
    /\ UNCHANGED <<now, stopRet, pending, signal, stopCalls, envVars,
                   audioVars, workerVars, start_time, iterStart,
                   processing_time, actual_time, videoVars>>

\* VideoProcessor.close(): `if self.cap: self.cap.release()`.  Reading
\* self.cap raises AttributeError when __init__ never assigned it; a capture
\* object is always true; release() of a capture that is not open does
\* nothing.
Close ==
    /\ closeCalls' = closeCalls + 1
    /\ IF ~capAttr
       THEN /\ closeRaised' = TRUE
            /\ UNCHANGED <<capOpen, released>>
       ELSE /\ capOpen' = FALSE
            /\ released' = IF capOpen THEN released + 1 ELSE released
            /\ UNCHANGED closeRaised

\* What play() does after its finally block: it returns, or the error that
\* went through the block propagates.
Leave == IF pending = "none" THEN "returned" ELSE "raised"

\* play(): `finally: self.processor.close()`, then cleanup() when there is
\* an audio processor.
FinallyClose ==
    /\ mainPc = "finally"
    /\ Close
    /\ IF audio_processor
       THEN /\ mainPc' = "stop1"
            /\ stopRet' = "cleanup"
       ELSE /\ mainPc' = Leave
            /\ UNCHANGED stopRet
    /\ UNCHANGED convertVars
    /\ UNCHANGED <<now, pending, signal, stopCalls, envVars, audioVars,
                   workerVars, syncVars, capAttr, stream, decoded, out,
                   frame_num, rendered, yielded>>

\* Where cleanup() returns to: a caller of cleanup() itself, or the end of
\* play().
AfterCleanup == IF stopRet = "client_cleanup" THEN "try_enter" ELSE Leave

\* A cleanup() that removes the file without asking whether it exists:
\* os.unlink of a missing file raises.
CleanupUnlinkUnchecked ==
    /\ mainPc = "unlink"
    /\ fileExists' = FALSE
    /\ IF audio_file_path /\ ~fileExists
       THEN mainPc' = "raised" /\ pending' = "error"
       ELSE mainPc' = AfterCleanup /\ UNCHANGED pending
    /\ UNCHANGED convertVars
    /\ UNCHANGED <<now, stopRet, signal, stopCalls, envVars,
                   audio_processor, extractResult, audio_file_path,
                   is_playing, playback_start_time, playback_process,
                   workerVars, syncVars, videoVars>>

\* cleanup(): after stop(), `if self.audio_file_path and
\* os.path.exists(self.audio_file_path)` the temporary audio file is
\* removed; an error of os.unlink is swallowed.
CleanupUnlink ==
    /\ mainPc = "unlink"
    /\ fileExists' = FALSE
    /\ mainPc' = AfterCleanup
    /\ UNCHANGED convertVars
    /\ UNCHANGED <<now, stopRet, pending, signal, stopCalls, envVars,
                   audio_processor, extractResult, audio_file_path,
                   is_playing, playback_start_time, playback_process,
                   workerVars, syncVars, videoVars>>


\* Positions of play() inside its try block, and the positions of play()
\* and export_frames() outside any try block.
InTry ==
    {"loop_next", "render", "wf_check", "wf_gcpt", "wf_decide", "wf_sleeping"}
OutsideTry ==
    {"constructed", "play_async", "stop1", "stop2", "stop3", "thread_start",
     "try_enter",
     "finally", "unlink", "ex_next", "ex_frame", "ex_summary"}

\* The user interrupt: KeyboardInterrupt is raised in the main thread at its
\* current position.  Inside the try block it is caught by
\* `except KeyboardInterrupt`, whose handler reports it and leads to the
\* finally block; anywhere else it propagates.
Interrupt ==
    /\ signal = NoSignal
    /\ mainPc \in InTry \cup OutsideTry
    /\ signal' = [at |-> mainPc, stops |-> stopCalls]
    /\ IF mainPc \in InTry
       THEN /\ mainPc' = "finally"
            /\ UNCHANGED pending
       ELSE /\ mainPc' = "raised"
            /\ pending' = "interrupt"
    /\ iterStart' = 0
    /\ processing_time' = 0
    /\ actual_time' = 0
    /\ wakeAt' = 0
    /\ UNCHANGED convertVars
    /\ UNCHANGED <<now, stopRet, stopCalls, envVars, audioVars, workerVars,
                   start_time, frame_count, calls, videoVars>>

\* export_frames(): `Path(output_dir).mkdir(exist_ok=True)` and the banner.
ExportBegin ==
    /\ mainPc = "constructed"
    /\ export
    /\ \E ok \in BOOLEAN :
          IF ok
          THEN /\ mainPc' = "ex_next"
               /\ UNCHANGED pending
          ELSE /\ mainPc' = "raised"
               /\ pending' = "error"
    /\ UNCHANGED convertVars
    /\ UNCHANGED <<now, stopRet, signal, stopCalls, envVars, audioVars,
                   workerVars, syncVars, videoVars>>

\* export_frames(): `for frame_num, frame in self.processor.get_frames(...)`.
ExportNext ==
    /\ mainPc = "ex_next"
    /\ GetFramesRead("ex_frame", "ex_summary")
    /\ UNCHANGED convertVars
    /\ UNCHANGED <<now, stopRet, pending, signal, stopCalls, envVars,
                   audioVars, workerVars, syncVars, decoderVars, stream,
                   rendered>>

\* export_frames(): convert the frame and write its file; an error raised
\* here leaves export_frames at once.
ExportFrame ==
    /\ mainPc = "ex_frame"
    /\ \E ok \in BOOLEAN :
          IF ok
          THEN /\ rendered' = rendered + 1
               /\ mainPc' = "ex_next"
               /\ UNCHANGED pending
          ELSE /\ mainPc' = "raised"
               /\ pending' = "error"
               /\ UNCHANGED rendered
    /\ UNCHANGED convertVars
    /\ UNCHANGED <<now, stopRet, signal, stopCalls, envVars, audioVars,
                   workerVars, syncVars, decoderVars, stream, decoded, out,
                   frame_num, yielded>>

\* export_frames(): the summary line reads the loop variable frame_num, which
\* is unbound when no frame was yielded; then self.processor.close().
ExportSummary ==
    /\ mainPc = "ex_summary"
    /\ IF yielded = 0
       THEN /\ mainPc' = "raised"
            /\ pending' = "error"
            /\ UNCHANGED <<capOpen, closeCalls, released, closeRaised>>
       ELSE /\ mainPc' = "returned"
            /\ Close
            /\ UNCHANGED pending
    /\ UNCHANGED convertVars
    /\ UNCHANGED <<now, stopRet, signal, stopCalls, envVars, audioVars,
                   workerVars, syncVars, capAttr, stream, decoded, out,
                   frame_num, rendered, yielded>>

\* ------------------------------------------------------ playback worker
\* main() ends when play() or export_frames() returns or raises, or at
\* sys.exit(1): the interpreter exits and its daemon threads end with it
\* (player processes do not).
Terminal == {"returned", "raised", "sysexit"}
Alive == mainPc \notin Terminal

\* playback_thread: `self.is_playing = True`.
WorkerSetPlaying(w) ==
    /\ Alive
    /\ wpc[w] = "ready"
    /\ is_playing' = TRUE
    /\ wDone' = [wDone EXCEPT ![w] = @ \cup {"playing"}]
    /\ wpc' = [wpc EXCEPT ![w] = "set_start"]
    /\ UNCHANGED convertVars
    /\ UNCHANGED <<now, mainVars, envVars, audio_processor, extractResult,
                   audio_file_path, fileExists, playback_start_time,
                   playback_process, wCands, waitOn, procState, syncVars,
                   videoVars>>

\* A worker that goes on to the delay and the launch without having
\* recorded the start timestamp.
WorkerSetStartOmitted(w) ==
    /\ Alive
    /\ wpc[w] = "set_start"
    /\ wpc' = [wpc EXCEPT ![w] = "delay"]
    /\ UNCHANGED convertVars
    /\ UNCHANGED <<now, mainVars, envVars, audioVars, wCands, waitOn, wDone,
                   procState, syncVars, videoVars>>

\* playback_thread: `self.playback_start_time = time.time()`.
WorkerSetStart(w) ==
    /\ Alive
    /\ wpc[w] = "set_start"
    /\ playback_start_time' = now
    /\ wDone' = [wDone EXCEPT ![w] = @ \cup {"start"}]
    /\ wpc' = [wpc EXCEPT ![w] = "delay"]
    /\ UNCHANGED convertVars
    /\ UNCHANGED <<now, mainVars, envVars, audio_processor, extractResult,
                   audio_file_path, fileExists, is_playing, playback_process,
                   wCands, waitOn, procState, syncVars, videoVars>>

\* playback_thread: `if delay > 0: time.sleep(delay)`; start() calls
\* play_async() with the default delay of 0.  Then sys.platform is read and
\* selects the candidate list.
WorkerDelay(w) ==
    /\ Alive
    /\ wpc[w] = "delay"
    /\ \E p \in Platforms : wCands' = [wCands EXCEPT ![w] = Candidates(p)]
    /\ wpc' = [wpc EXCEPT ![w] = "launch"]
    /\ UNCHANGED convertVars
    /\ UNCHANGED <<now, mainVars, envVars, audioVars, waitOn, wDone,
                   procState, syncVars, videoVars>>

\* playback_thread: subprocess.Popen of the next candidate.  It launches the
\* player, raises FileNotFoundError (the next candidate is tried; with none
\* left the worker falls to its end), or raises another error (caught by
\* `except Exception`).
WorkerLaunch(w) ==
    /\ Alive
    /\ wpc[w] = "launch"
    /\ IF wCands[w] = <<>>
       THEN /\ wpc' = [wpc EXCEPT ![w] = "clear"]
            /\ UNCHANGED <<wCands, procState>>
       ELSE \E r \in {"launched", "not_found", "error"} :
              CASE r = "launched" ->
                     /\ procState' = [procState EXCEPT ![w] = "running"]
                     /\ wCands' = [wCands EXCEPT ![w] = <<>>]
                     /\ wpc' = [wpc EXCEPT ![w] = "assign"]
                [] r = "not_found" ->
                     /\ wCands' = [wCands EXCEPT ![w] = Tail(@)]
                     /\ UNCHANGED <<wpc, procState>>
                [] OTHER ->
                     /\ wCands' = [wCands EXCEPT ![w] = <<>>]
                     /\ wpc' = [wpc EXCEPT ![w] = "clear"]
                     /\ UNCHANGED procState
    /\ UNCHANGED convertVars
    /\ UNCHANGED <<now, mainVars, envVars, audioVars, waitOn, wDone,
                   syncVars, videoVars>>

\* playback_thread: `self.playback_process = <the Popen object>`.
WorkerAssign(w) ==
    /\ Alive
    /\ wpc[w] = "assign"
    /\ playback_process' = w
    /\ wpc' = [wpc EXCEPT ![w] = "wait_call"]
    /\ UNCHANGED convertVars
    /\ UNCHANGED <<now, mainVars, envVars, audio_processor, extractResult,
                   audio_file_path, fileExists, is_playing,
                   playback_start_time, wCands, waitOn, wDone, procState,
                   syncVars, videoVars>>

\* playback_thread: `self.playback_process.wait()` reads the attribute again;
\* when stop() has set it to None the call raises AttributeError.
WorkerWaitCall(w) ==
    /\ Alive
    /\ wpc[w] = "wait_call"
    /\ IF playback_process = 0
       THEN /\ wpc' = [wpc EXCEPT ![w] = "clear"]
            /\ UNCHANGED waitOn
       ELSE /\ wpc' = [wpc EXCEPT ![w] = "waiting"]
            /\ waitOn' = [waitOn EXCEPT ![w] = playback_process]
    /\ UNCHANGED convertVars
    /\ UNCHANGED <<now, mainVars, envVars, audioVars, wCands, wDone,
                   procState, syncVars, videoVars>>

\* playback_thread: wait() returns once the process has ended.
WorkerWaitReturn(w) ==
    /\ Alive
    /\ wpc[w] = "waiting"
    /\ procState[waitOn[w]] # "running"
    /\ wpc' = [wpc EXCEPT ![w] = "clear"]
    /\ waitOn' = [waitOn EXCEPT ![w] = 0]
    /\ UNCHANGED convertVars
    /\ UNCHANGED <<now, mainVars, envVars, audioVars, wCands, wDone,
                   procState, syncVars, videoVars>>

\* A worker that ends without clearing is_playing.
WorkerClearPlayingOmitted(w) ==
    /\ Alive
    /\ wpc[w] = "clear"
    /\ wpc' = [wpc EXCEPT ![w] = "done"]
    /\ UNCHANGED convertVars
    /\ UNCHANGED <<now, mainVars, envVars, audioVars, wCands, waitOn, wDone,
                   procState, syncVars, videoVars>>

\* playback_thread: `self.is_playing = False`, at its end or in its
\* `except Exception` handler.
WorkerClearPlaying(w) ==
    /\ Alive
    /\ wpc[w] = "clear"
    /\ is_playing' = FALSE
    /\ wpc' = [wpc EXCEPT ![w] = "done"]
    /\ UNCHANGED convertVars
    /\ UNCHANGED <<now, mainVars, envVars, audio_processor, extractResult,
                   audio_file_path, fileExists, playback_start_time,
                   playback_process, wCands, waitOn, wDone, procState,
                   syncVars, videoVars>>

\* The player process ends on its own: the audio is over, or it crashed.
ProcessEnds(w) ==
    /\ procState[w] = "running"
    /\ procState' = [procState EXCEPT ![w] = "exited"]
    /\ UNCHANGED convertVars
    /\ UNCHANGED <<now, mainVars, envVars, audioVars, wpc, wCands, waitOn,
                   wDone, syncVars, videoVars>>

\* ---------------------------------------------------------------- time
\* The clock advances.  Only differences of clock readings are used: the
\* first reading is start()'s and the last one is made in the loop of play(),
\* so the clock runs from the return of start() to the end of the loop.  Idle
\* time is bounded by MaxTime; the time a time.sleep() call needs always
\* passes.
Tick ==
    /\ \/ now < MaxTime
       \/ mainPc = "wf_sleeping" /\ now < wakeAt
    /\ mainPc \in InTry \cup {"try_enter"}
    /\ now' = now + 1
    /\ UNCHANGED convertVars
    /\ UNCHANGED <<mainVars, envVars, audioVars, workerVars, syncVars,
                   videoVars>>

MainStep ==
    \/ Main \/ Construct \/ SyncStart \/ PlayAsync \/ Stop1 \/ Stop2 \/ Stop3
    \/ ThreadStart \/ TryEnter \/ LoopNext \/ Render \/ WfCheckPlaying
    \/ WfGetPlaybackTime \/ WfSleep \/ WfWake \/ FinallyClose
    \/ CleanupUnlink \/ ExportBegin \/ ExportNext \/ ExportFrame
    \/ ExportSummary

WorkerStep ==
    \E w \in DOMAIN wpc :
       \/ WorkerSetPlaying(w) \/ WorkerSetStart(w) \/ WorkerDelay(w)
       \/ WorkerLaunch(w) \/ WorkerAssign(w) \/ WorkerWaitCall(w)
       \/ WorkerWaitReturn(w)
       \/ WorkerClearPlaying(w) \/ ProcessEnds(w)

Next == MainStep \/ WorkerStep \/ Interrupt \/ Tick

Spec == Init /\ [][Next]_vars

\* The program without a user interrupt.  The main thread and the clock keep
\* running; nothing is assumed of the playback worker or of the player
\* process.
NoInterruptNext == MainStep \/ WorkerStep \/ Tick
FairSpec ==
    Init /\ [][NoInterruptNext]_vars /\ WF_vars(MainStep) /\ WF_vars(Tick)

\* ------------------------------------------------- a synchronizer client
\* A caller of the AudioSynchronizer API alone: it builds the synchronizer
\* with or without an audio processor, calls start(play_audio) with either
\* value, or calls wait_for_frame() without having called start(), paces the
\* frames of a video as play() does, and may call start() again between two
\* frames.
SyncInit ==
    /\ now = 0
    /\ mainPc \in {"constructed", "loop_next"}
    /\ stopRet = "none"
    /\ pending = "none"
    /\ signal = NoSignal
    /\ source = "file"
    /\ audio_enabled \in BOOLEAN
    /\ export = FALSE
    /\ speed \in Speeds
    /\ skip = 0
    /\ audio_processor \in BOOLEAN
    /\ extractResult \in
          IF audio_processor THEN {"ok", "missing"} ELSE {"none"}
    /\ audio_file_path = PathSetAfter(extractResult)
    /\ fileExists = PathSetAfter(extractResult)
    /\ is_playing = FALSE
    /\ playback_start_time = NoTime
    /\ playback_process = 0
    /\ wpc = [w \in Workers |-> "idle"]
    /\ wCands = [w \in Workers |-> <<>>]
    /\ waitOn = [w \in Workers |-> 0]
    /\ wDone = [w \in Workers |-> {}]
    /\ procState = [w \in Workers |-> "none"]
    /\ start_time = NoTime
    /\ frame_count = 0
    /\ iterStart = 0
    /\ processing_time = 0
    /\ actual_time = 0
    /\ wakeAt = 0
    /\ calls = 0
    /\ capAttr = TRUE
    /\ capOpen = TRUE
    /\ closeCalls = 0
    /\ released = 0
    /\ closeRaised = FALSE
    /\ stream = MaxFrames
    /\ decoded = 0
    /\ out = <<>>
    /\ frame_num = 0
    /\ rendered = 0
    /\ yielded = 0
    /\ stopCalls = 0
    /\ ConvertIdle

\* The caller starts a new session, start(play_audio), after a frame.  This
\* caller has the audio played in one of its sessions only: it asks for
\* playback when no playback worker was started before.
StartAgain ==
    /\ mainPc = "loop_next"
    /\ calls > 0
    /\ \E play_audio \in BOOLEAN :
          /\ (play_audio /\ audio_processor /\ ~NoAudioFile) =>
                \A w \in Workers : wpc[w] = "idle"
          /\ audio_enabled' = play_audio
    /\ mainPc' = "constructed"
    /\ UNCHANGED <<now, stopRet, pending, signal, stopCalls, source, export,
                   speed, skip, audioVars, workerVars, syncVars, videoVars,
                   convertVars>>

SyncNext ==
    \/ SyncStart \/ PlayAsync \/ Stop1 \/ Stop2 \/ Stop3 \/ ThreadStart
    \/ TryEnter \/ LoopNext \/ Render \/ WfCheckPlaying \/ WfGetPlaybackTime
    \/ WfSleep \/ WfWake \/ FinallyClose \/ CleanupUnlink \/ StartAgain
    \/ WorkerStep \/ Tick

SyncSpec == SyncInit /\ [][SyncNext]_vars

\* ----------------------------------------------- a frame source client
\* A caller of the VideoProcessor API alone: it constructs the object from a
\* source, iterates get_frames(skip) as far as it likes, and calls close()
\* any number of times, directly or through __exit__; the object's
\* destructor runs last.  The stream is long enough for a frame to be
\* yielded after a skipped one.
LongStream == 2 * MaxFrames

\* Python's int(str): white space around the number is dropped, one sign
\* may lead, and the rest is decimal digits that single underscores may
\* separate; anything else raises ValueError.  A string is the sequence of
\* its code points.
IsSpace(c) == c \in {9, 10, 11, 12, 13, 32}
IsDigit(c) == c >= 48 /\ c <= 57
RECURSIVE Strip(_)
Strip(s) ==
    IF Len(s) > 0 /\ IsSpace(s[1]) THEN Strip(Tail(s))
    ELSE IF Len(s) > 0 /\ IsSpace(s[Len(s)])
    THEN Strip(SubSeq(s, 1, Len(s) - 1))
    ELSE s
Unsigned(s) == IF Len(s) > 0 /\ s[1] \in {43, 45} THEN Tail(s) ELSE s
DigitsOk(d) ==
    /\ Len(d) > 0
    /\ IsDigit(d[1])
    /\ IsDigit(d[Len(d)])
    /\ \A i \in 1..Len(d) : IsDigit(d[i]) \/ d[i] = 95
    /\ \A i \in 1..(Len(d) - 1) : ~(d[i] = 95 /\ d[i + 1] = 95)
ParsesAsInt(s) == DigitsOk(Unsigned(Strip(s)))

\* Values of video_path: "0", "1", "-1", "+1", " 2", "1_0", "_1", "1_",
\* "1__0", "", "a", "1a", "1.0", "v.mp4".
VideoPaths ==
    {<<48>>, <<49>>, <<45, 49>>, <<43, 49>>, <<32, 50>>, <<49, 95, 48>>,
     <<95, 49>>, <<49, 95>>, <<49, 95, 95, 48>>, <<>>, <<97>>, <<49, 97>>,
     <<49, 46, 48>>, <<118, 46, 109, 112, 52>>}

\* A constructor that asks for the path of every source, camera indexes
\* included.
SourceKindPathFirst(c) ==
    IF ~c.exists THEN "missing"
    ELSE IF ~c.opens THEN "unopenable"
    ELSE IF ParsesAsInt(c.video_path) THEN "camera"
    ELSE "file"

\* VideoProcessor.__init__, lines 28-40, for a video_path, the answer of
\* os.path.exists(video_path) and whether the decoder opens the source:
\* int(video_path) makes a camera index of a string that parses; another
\* string is a path, which must exist; then the decoder must open the source.
SourceKind(c) ==
    IF ParsesAsInt(c.video_path)
    THEN IF c.opens THEN "camera" ELSE "unopenable"
    ELSE IF ~c.exists THEN "missing"
    ELSE IF c.opens THEN "file"
    ELSE "unopenable"

VideoInit ==
    /\ call \in [fn : {"VideoProcessor"}, video_path : VideoPaths,
                 exists : BOOLEAN, opens : BOOLEAN]
    /\ now = 0
    /\ mainPc = "vp_new"
    /\ stopRet = "none"
    /\ pending = "none"
    /\ signal = NoSignal
    /\ source = SourceKind(call)
    /\ audio_enabled = FALSE
    /\ export = FALSE
    /\ speed = 1
    /\ skip \in 0..MaxSkip
    /\ audio_processor = FALSE
    /\ extractResult = "none"
    /\ audio_file_path = FALSE
    /\ fileExists = FALSE
    /\ is_playing = FALSE
    /\ playback_start_time = NoTime
    /\ playback_process = 0
    /\ wpc = [w \in Workers |-> "idle"]
    /\ wCands = [w \in Workers |-> <<>>]
    /\ waitOn = [w \in Workers |-> 0]
    /\ wDone = [w \in Workers |-> {}]
    /\ procState = [w \in Workers |-> "none"]
    /\ start_time = NoTime
    /\ frame_count = 0
    /\ iterStart = 0
    /\ processing_time = 0
    /\ actual_time = 0
    /\ wakeAt = 0
    /\ calls = 0
    /\ capAttr = FALSE
    /\ capOpen = FALSE
    /\ closeCalls = 0
    /\ released = 0
    /\ closeRaised = FALSE
    /\ stream = LongStream
    /\ decoded = 0
    /\ out = <<>>
    /\ frame_num = 0
    /\ rendered = 0
    /\ yielded = 0
    /\ stopCalls = 0
    /\ PixelIdle
    /\ returned = NoCall

\* Everything but the frame source and the caller's position.
nonVideoVars ==
    <<now, stopRet, pending, signal, stopCalls, envVars, audioVars,
      workerVars, syncVars, convertVars>>

\* VideoProcessor(source): the caller holds the object when __init__
\* returned, and holds nothing when it raised.
VpConstruct ==
    /\ mainPc = "vp_new"
    /\ VideoProcessorInit
    /\ mainPc' = IF capOpen' THEN "vp_iter" ELSE "vp_failed"
    /\ UNCHANGED <<nonVideoVars, closeCalls, released, closeRaised, stream,
                   decoded, out, frame_num, rendered, yielded>>

\* next() on the generator of get_frames(skip), one cap.read() at a time;
\* `ret` of the read is kept.
VpNext ==
    /\ mainPc = "vp_iter"
    /\ GetFramesRead("vp_iter", "vp_end")
    /\ returned' = [fn |-> "cap.read", ret |-> decoded' # decoded]
    /\ UNCHANGED <<now, stopRet, pending, signal, stopCalls, envVars,
                   audioVars, workerVars, syncVars, charset, sample,
                   ascii_str, ascii_arr, use_256_colors, use_truecolor,
                   rgb, colored, call, decoderVars, stream, rendered>>

\* close(), or __exit__, which calls it; the generator may be unfinished.
VpClose ==
    /\ mainPc \in {"vp_iter", "vp_end"}
    /\ closeCalls < MaxCloses
    /\ Close
    /\ UNCHANGED <<nonVideoVars, mainPc, capAttr, stream, decoded, out,
                   frame_num, rendered, yielded>>

\* __del__, which calls close(): the object is collected, also when its
\* __init__ raised.
VpDel ==
    /\ mainPc \in {"vp_failed", "vp_iter", "vp_end"}
    /\ Close
    /\ mainPc' = "vp_deleted"
    /\ UNCHANGED <<nonVideoVars, capAttr, stream, decoded, out, frame_num,
                   rendered, yielded>>

VideoNext == VpConstruct \/ VpNext \/ VpClose \/ VpDel

VideoSpec == VideoInit /\ [][VideoNext]_vars

\* --------------------------------------------------- glyph conversion
\* The charsets of ascii_charsets.py, darkest glyph first; a glyph is the
\* code point of its character.
STANDARD_CHARSET ==
    <<36, 64, 66, 37, 56, 38, 87, 77, 35, 42, 111, 97, 104, 107, 98, 100,
      112, 113, 119, 109, 90, 79, 48, 81, 76, 67, 74, 85, 89, 88, 122, 99,
      118, 117, 110, 120, 114, 106, 102, 116, 47, 92, 124, 40, 41, 49,
      123, 125, 91, 93, 63, 45, 95, 43, 126, 60, 62, 105, 33, 108, 73, 59,
      58, 44, 34, 94, 96, 39, 46, 32>>
SIMPLE_CHARSET ==
    <<64, 37, 35, 42, 43, 61, 45, 58, 46, 32>>
DETAILED_CHARSET ==
    <<36, 64, 66, 37, 56, 38, 87, 77, 35, 42, 111, 97, 104, 107, 98, 100,
      112, 113, 119, 109, 90, 79, 48, 81, 76, 67, 74, 85, 89, 88, 122, 99,
      118, 117, 110, 120, 114, 106, 102, 116, 47, 92, 124, 40, 41, 49,
      123, 125, 91, 93, 63, 45, 95, 43, 126, 60, 62, 105, 33, 108, 73, 59,
      58, 44, 34, 94, 96, 39, 46, 44, 126, 45, 43, 95, 61, 42, 37, 64, 36,
      35>>
BLOCK_CHARSET ==
    <<9608, 9619, 9618, 9617, 32>>
MINIMAL_CHARSET ==
    <<64, 35, 42, 43, 61, 45, 58, 46, 32>>
\* A charset of one glyph.
SINGLE_GLYPH_CHARSET ==
    <<64>>
BINARY_CHARSET ==
    <<64, 46, 32>>

CHARSETS ==
    [name \in {"standard", "simple", "detailed", "block", "minimal", "binary"}
       |-> CASE name = "standard" -> STANDARD_CHARSET
             [] name = "simple" -> SIMPLE_CHARSET
             [] name = "detailed" -> DETAILED_CHARSET
             [] name = "block" -> BLOCK_CHARSET
             [] name = "minimal" -> MINIMAL_CHARSET
             [] OTHER -> BINARY_CHARSET]

\* list_charsets().
list_charsets == DOMAIN CHARSETS

\* The keys of CHARSETS as Python strings: the code points of each name.
Spelling ==
    [name \in {"standard", "simple", "detailed", "block", "minimal", "binary"}
       |-> CASE name = "standard" -> 
                    <<115, 116, 97, 110, 100, 97, 114, 100>>
             [] name = "simple" -> 
                    <<115, 105, 109, 112, 108, 101>>
             [] name = "detailed" -> 
                    <<100, 101, 116, 97, 105, 108, 101, 100>>
             [] name = "block" -> 
                    <<98, 108, 111, 99, 107>>
             [] name = "minimal" -> 
                    <<109, 105, 110, 105, 109, 97, 108>>
             [] OTHER -> 
                    <<98, 105, 110, 97, 114, 121>>]

\* str.lower() of one code point: A-Z and the Kelvin sign have a
\* lower-case form among the code points used here.
LowerChar(c) ==
    IF c >= 65 /\ c <= 90 THEN c + 32 ELSE IF c = 8490 THEN 107 ELSE c
\* A lower() that leaves every letter as it is.
LowerAsIs(s) == s
\* name.lower().
Lower(s) == [i \in DOMAIN s |-> LowerChar(s[i])]

\* `name in CHARSETS`: the key spelled name, "none" when there is none.
KeyOf(name) ==
    IF \E k \in DOMAIN CHARSETS : Spelling[k] = name
    THEN CHOOSE k \in DOMAIN CHARSETS : Spelling[k] = name
    ELSE "none"

\* get_charset(name): ValueError for a name whose lower-cased form is not
\* a key, the charset registered under the lower-cased name otherwise.
get_charset(name) ==
    IF KeyOf(Lower(name)) = "none"
    THEN [outcome |-> "ValueError", charset |-> <<>>]
    ELSE [outcome |-> "ok", charset |-> CHARSETS[KeyOf(Lower(name))]]

\* The values of a uint8 pixel; 255 is also the divisor of the
\* normalisation.
MaxSample == 255
Samples == 0..MaxSample

\* A float32 value m / 2^k with m < 2^24: numpy keeps the frame in float32
\* from `astype(np.float32)` to `astype(np.int32)`.
F32Bits == 24
F32Hidden == 8388608
F32Zero == [m |-> 0, k |-> 0]

RECURSIVE Pow2(_)
Pow2(n) == IF n = 0 THEN 1 ELSE 2 * Pow2(n - 1)

\* q + r/d rounded to the nearest integer, ties to even.
RoundHalfEven(q, r, d) ==
    IF 2 * r > d \/ (2 * r = d /\ q % 2 = 1) THEN q + 1 ELSE q

\* Binary long division: quotient bits are produced until the quotient has
\* 24 significant bits, then the remainder rounds it.
RECURSIVE F32DivBits(_, _, _, _)
F32DivBits(q, r, k, d) ==
    IF q >= F32Hidden
    THEN [m |-> RoundHalfEven(q, r, d), k |-> k]
    ELSE IF 2 * r >= d
         THEN F32DivBits(2 * q + 1, 2 * r - d, k + 1, d)
         ELSE F32DivBits(2 * q, 2 * r, k + 1, d)

\* The float32 quotient a / d of two small non-negative integers.
F32Div(a, d) ==
    IF a = 0 THEN F32Zero ELSE F32DivBits(a \div d, a % d, 0, d)

\* Bits by which p exceeds a 24-bit significand.
RECURSIVE ExcessBits(_)
ExcessBits(p) == IF p < 2 * F32Hidden THEN 0 ELSE 1 + ExcessBits(p \div 2)

\* The float32 product of a float32 and a small non-negative integer.
F32MulInt(x, n) ==
    LET p == x.m * n
        sh == ExcessBits(p)
    IN  IF sh = 0
        THEN [m |-> p, k |-> x.k]
        ELSE [m |-> RoundHalfEven(p \div Pow2(sh), p % Pow2(sh), Pow2(sh)),
              k |-> x.k - sh]

\* A conversion to integer that rounds to the nearest integer.
RoundToNearest(x) ==
    IF x.k <= 0 THEN x.m * Pow2(0 - x.k)
    ELSE IF x.k >= 31 THEN 0
    ELSE RoundHalfEven(x.m \div Pow2(x.k), x.m % Pow2(x.k), Pow2(x.k))

\* `.astype(np.int32)` of a non-negative float32: the fraction is dropped.
Truncate(x) ==
    IF x.k <= 0 THEN x.m * Pow2(0 - x.k)
    ELSE IF x.k >= 31 THEN 0
    ELSE x.m \div Pow2(x.k)

\* A normalisation that inverts the brightness.
NormalizeInverted(s) == F32Div(MaxSample - s, MaxSample)

\* `normalized = resized.astype(np.float32) / 255.0`.
Normalize(s) == F32Div(s, MaxSample)

\* An index scaled by the charset length instead of the last index.
FrameToAsciiIndexByLength(s, charset_len) ==
    Truncate(F32MulInt(Normalize(s), charset_len))

\* frame_to_ascii: `indices = (normalized * (self.charset_len - 1))
\* .astype(np.int32)`, for one pixel.
FrameToAsciiIndex(s, charset_len) ==
    Truncate(F32MulInt(Normalize(s), charset_len - 1))

\* get_ascii_array: the same two statements.
GetAsciiArrayIndex(s, charset_len) ==
    Truncate(F32MulInt(Normalize(s), charset_len - 1))

\* `self.charset[idx]`: Python counts from 0, a negative index counts from
\* the end, and an index outside the string raises IndexError.
IndexError == 0 - 2
CharAt(cs, idx) ==
    IF idx >= 0 /\ idx < Len(cs) THEN cs[idx + 1]
    ELSE IF idx < 0 /\ idx >= 0 - Len(cs) THEN cs[Len(cs) + idx + 1]
    ELSE IndexError

\* The index of every sample for every registered charset length, computed
\* once by frame_to_ascii's expression.
IndexTable ==
    [name \in list_charsets |->
       [s \in Samples |-> FrameToAsciiIndex(s, Len(CHARSETS[name]))]]

\* The player with nothing going on but conversions.
playerVars ==
    <<now, mainVars, envVars, audioVars, workerVars, syncVars, videoVars>>
colorVars == <<use_256_colors, use_truecolor, rgb, colored>>

OnlyConverting ==
    /\ now = 0
    /\ mainPc = "render"
    /\ stopRet = "none"
    /\ pending = "none"
    /\ signal = NoSignal
    /\ source = "file"
    /\ audio_enabled = FALSE
    /\ export = FALSE
    /\ speed = 1
    /\ skip = 0
    /\ audio_processor = FALSE
    /\ extractResult = "none"
    /\ audio_file_path = FALSE
    /\ fileExists = FALSE
    /\ is_playing = FALSE
    /\ playback_start_time = NoTime
    /\ playback_process = 0
    /\ wpc = [w \in Workers |-> "idle"]
    /\ wCands = [w \in Workers |-> <<>>]
    /\ waitOn = [w \in Workers |-> 0]
    /\ wDone = [w \in Workers |-> {}]
    /\ procState = [w \in Workers |-> "none"]
    /\ start_time = NoTime
    /\ frame_count = 0
    /\ iterStart = 0
    /\ processing_time = 0
    /\ actual_time = 0
    /\ wakeAt = 0
    /\ calls = 0
    /\ capAttr = TRUE
    /\ capOpen = TRUE
    /\ closeCalls = 0
    /\ released = 0
    /\ closeRaised = FALSE
    /\ stream = MaxFrames
    /\ decoded = 1
    /\ out = <<<<0, 0>>>>
    /\ frame_num = 1
    /\ rendered = 0
    /\ yielded = 1
    /\ stopCalls = 0

\* An ASCIIConverter with any registered charset is given a resized grey
\* frame; one pixel of it is followed.
GlyphInit ==
    /\ OnlyConverting
    /\ charset \in list_charsets
    /\ sample \in Samples
    /\ ascii_str = NoResult
    /\ ascii_arr = NoResult
    /\ use_256_colors = TRUE
    /\ use_truecolor = TRUE
    /\ rgb = <<0, 0, 0>>
    /\ colored = <<>>
    /\ call = NoCall
    /\ returned = NoCall

\* frame_to_ascii(frame).
FrameToAscii ==
    /\ ascii_str = NoResult
    /\ LET cs == get_charset(Spelling[charset]).charset
           idx == FrameToAsciiIndex(sample, Len(cs))
       IN  ascii_str' = [idx |-> idx, glyph |-> CharAt(cs, idx)]
    /\ UNCHANGED <<playerVars, charset, sample, ascii_arr, colorVars,
                   applyVars>>

\* get_ascii_array(frame).
GetAsciiArray ==
    /\ ascii_arr = NoResult
    /\ LET cs == get_charset(Spelling[charset]).charset
           idx == GetAsciiArrayIndex(sample, Len(cs))
       IN  ascii_arr' = [idx |-> idx, glyph |-> CharAt(cs, idx)]
    /\ UNCHANGED <<playerVars, charset, sample, ascii_str, colorVars,
                   applyVars>>

GlyphNext == FrameToAscii \/ GetAsciiArray

GlyphSpec == GlyphInit /\ [][GlyphNext]_vars

\* -------------------------------------------------------------- colour
\* Channel values of a pixel: the ends of the range, the brightness
\* thresholds of the 16-colour mapping and their neighbours, and both sides
\* of every boundary between two of the six levels of the 256-colour cube.
ChannelGrid ==
    {0, 25, 26, 49, 50, 51, 76, 77, 127, 128, 178, 179, 199, 200, 201, 202,
     229, 230, 255}

\* A quantisation that drops the fraction.
QuantizeFloor(c) == (c * 5) \div 255

\* rgb_to_256_color: `round(c / 255 * 5)`.  Python's round() goes to the
\* nearest integer, ties to even; c * 5 / 255 is never within 1/510 of a
\* tie, so the float64 rounding of the quotient cannot change the result.
Quantize(c) == RoundHalfEven((c * 5) \div 255, (c * 5) % 255, 255)

\* rgb_to_256_color(r, g, b).
rgb_to_256_color(r, g, b) ==
    16 + 36 * Quantize(r) + 6 * Quantize(g) + Quantize(b)

\* A 16-colour mapping that tests g > b before r > b.
rgb_to_ansi_16_green_first(r, g, b) ==
    LET brightness == (r + g + b) \div 3
    IN  IF brightness < 50 THEN 30
        ELSE IF brightness > 200 THEN 37
        ELSE IF r > g /\ r > b THEN 31
        ELSE IF g > r /\ g > b THEN 32
        ELSE IF b > r /\ b > g THEN 34
        ELSE IF g > b THEN 32
        ELSE IF r > b THEN 33
        ELSE 34

\* A 16-colour mapping whose white threshold includes brightness 200.
rgb_to_ansi_16_inclusive(r, g, b) ==
    LET brightness == (r + g + b) \div 3
    IN  IF brightness < 50 THEN 30
        ELSE IF brightness >= 200 THEN 37
        ELSE IF r > g /\ r > b THEN 31
        ELSE IF g > r /\ g > b THEN 32
        ELSE IF b > r /\ b > g THEN 34
        ELSE IF r > b THEN 33
        ELSE IF g > b THEN 32
        ELSE 34

\* rgb_to_ansi_16(r, g, b): `brightness = (r + g + b) // 3`, then the chain
\* of comparisons.
rgb_to_ansi_16(r, g, b) ==
    LET brightness == (r + g + b) \div 3
    IN  IF brightness < 50 THEN 30
        ELSE IF brightness > 200 THEN 37
        ELSE IF r > g /\ r > b THEN 31
        ELSE IF g > r /\ g > b THEN 32
        ELSE IF b > r /\ b > g THEN 34
        ELSE IF r > b THEN 33
        ELSE IF g > b THEN 32
        ELSE 34

\* An escape sequence ESC [ p1 ; p2 ; ... m, by its parameters.
Sgr(params) == [sgr |-> params]

\* rgb_to_truecolor(r, g, b): "\033[38;2;{r};{g};{b}m".
rgb_to_truecolor(r, g, b) == Sgr(<<38, 2, r, g, b>>)

\* "\033[0m".
ResetDirective == Sgr(<<0>>)

\* A colorize_char that leaves the colour on.
colorize_char_no_reset(char, r, g, b) ==
    IF use_truecolor
    THEN <<rgb_to_truecolor(r, g, b), char>>
    ELSE IF use_256_colors
    THEN <<Sgr(<<38, 5, rgb_to_256_color(r, g, b)>>), char>>
    ELSE <<Sgr(<<rgb_to_ansi_16(r, g, b)>>), char>>

\* colorize_char(char, r, g, b): the pieces of the string it returns.
colorize_char(char, r, g, b) ==
    IF use_truecolor
    THEN <<rgb_to_truecolor(r, g, b), char, ResetDirective>>
    ELSE IF use_256_colors
    THEN <<Sgr(<<38, 5, rgb_to_256_color(r, g, b)>>), char, ResetDirective>>
    ELSE <<Sgr(<<rgb_to_ansi_16(r, g, b)>>), char, ResetDirective>>

\* A ColorProcessor with any combination of its two flags colours a row of
\* MaxRow pixels of one colour, whose glyph get_ascii_array has computed.
ColorInit ==
    /\ OnlyConverting
    /\ charset = "standard"
    /\ sample = 0
    /\ ascii_str = NoResult
    /\ ascii_arr = [idx |-> 0,
                    glyph |-> CharAt(get_charset(Spelling["standard"]).charset,
                                     0)]
    /\ use_256_colors \in BOOLEAN
    /\ use_truecolor \in BOOLEAN
    /\ rgb \in ChannelGrid \X ChannelGrid \X ChannelGrid
    /\ colored = <<>>
    /\ call = NoCall
    /\ returned = NoCall

\* colorize_frame: `line += self.colorize_char(char, r, g, b)` for the next
\* pixel of the row.
ColorizePixel ==
    /\ Len(colored) < 3 * MaxRow
    /\ colored' =
          colored \o colorize_char(ascii_arr.glyph, rgb[1], rgb[2], rgb[3])
    /\ UNCHANGED <<playerVars, charset, sample, ascii_str, ascii_arr,
                   use_256_colors, use_truecolor, rgb, applyVars>>

ColorNext == ColorizePixel

ColorSpec == ColorInit /\ [][ColorNext]_vars

\* ---------------------------------------------------- float64 arithmetic
\* Python floats are IEEE 754 binary64.  A natural number of any size is
\* the sequence of its digits in base 2^15, least significant first, with
\* no leading zero digit; a positive float64 is m * 2^e with 53 significant
\* bits in m.  Every operation computes the exact result and rounds it once
\* to the nearest float64, ties to even.
LimbBits == 15
Limb == 32768
F64Bits == 53
\* Fraction bits a quotient is computed to before it is rounded.
GuardBits == 60

BigLimb(a, i) == IF i >= 1 /\ i <= Len(a) THEN a[i] ELSE 0

RECURSIVE BigTrim(_)
BigTrim(a) ==
    IF Len(a) > 0 /\ a[Len(a)] = 0
    THEN BigTrim(SubSeq(a, 1, Len(a) - 1))
    ELSE a

RECURSIVE IntBits(_)
IntBits(n) == IF n = 0 THEN 0 ELSE 1 + IntBits(n \div 2)

BigBitLen(a) ==
    IF Len(a) = 0 THEN 0
    ELSE LimbBits * (Len(a) - 1) + IntBits(a[Len(a)])

BigBit(a, i) ==
    (BigLimb(a, (i \div LimbBits) + 1) \div Pow2(i % LimbBits)) % 2

\* No bit of a below position s is set.
BigLowZero(a, s) ==
    /\ \A j \in 1..(s \div LimbBits) : BigLimb(a, j) = 0
    /\ BigLimb(a, (s \div LimbBits) + 1) % Pow2(s % LimbBits) = 0

\* floor(a / 2^s).
BigShiftRight(a, s) ==
    LET k == s \div LimbBits
        t == s % LimbBits
    IN  BigTrim([j \in 1..(IF Len(a) > k THEN Len(a) - k ELSE 0) |->
                   (BigLimb(a, j + k) \div Pow2(t))
                   + (BigLimb(a, j + k + 1) % Pow2(t)) * Pow2(LimbBits - t)])

\* a * 2^s.
BigShiftLeft(a, s) ==
    LET k == s \div LimbBits
        t == s % LimbBits
    IN  BigTrim([j \in 1..(Len(a) + k + 1) |->
                   (BigLimb(a, j - k) % Pow2(LimbBits - t)) * Pow2(t)
                   + (BigLimb(a, j - k - 1) \div Pow2(LimbBits - t))])

RECURSIVE BigAddFrom(_, _, _, _)
BigAddFrom(a, b, i, carry) ==
    IF i > Len(a) /\ i > Len(b)
    THEN IF carry = 0 THEN <<>> ELSE <<carry>>
    ELSE LET s == BigLimb(a, i) + BigLimb(b, i) + carry
         IN  <<s % Limb>> \o BigAddFrom(a, b, i + 1, s \div Limb)

BigAdd(a, b) == BigTrim(BigAddFrom(a, b, 1, 0))

RECURSIVE BigSubFrom(_, _, _, _)
BigSubFrom(a, b, i, borrow) ==
    IF i > Len(a) THEN <<>>
    ELSE LET s == a[i] - BigLimb(b, i) - borrow
         IN  IF s < 0
             THEN <<s + Limb>> \o BigSubFrom(a, b, i + 1, 1)
             ELSE <<s>> \o BigSubFrom(a, b, i + 1, 0)

\* a - b for a >= b.
BigSub(a, b) == BigTrim(BigSubFrom(a, b, 1, 0))

RECURSIVE BigMulSmallFrom(_, _, _, _)
BigMulSmallFrom(a, n, i, carry) ==
    IF i > Len(a)
    THEN IF carry = 0 THEN <<>> ELSE <<carry>>
    ELSE LET p == a[i] * n + carry
         IN  <<p % Limb>> \o BigMulSmallFrom(a, n, i + 1, p \div Limb)

\* a * n for one digit n.
BigMulSmall(a, n) == BigTrim(BigMulSmallFrom(a, n, 1, 0))

RECURSIVE BigMulFrom(_, _, _)
BigMulFrom(a, b, j) ==
    IF j > Len(b) THEN <<>>
    ELSE BigAdd(BigMulSmall(a, b[j]), <<0>> \o BigMulFrom(a, b, j + 1))

BigMul(a, b) == BigTrim(BigMulFrom(a, b, 1))

\* a divided by one digit d > 0, from the most significant digit down: the
\* quotient and the remainder.
RECURSIVE BigDivSmallFrom(_, _, _, _)
BigDivSmallFrom(a, d, i, rem) ==
    IF i = 0 THEN [q |-> <<>>, r |-> rem]
    ELSE LET cur == rem * Limb + a[i]
             rest == BigDivSmallFrom(a, d, i - 1, cur % d)
         IN  [q |-> rest.q \o <<cur \div d>>, r |-> rest.r]

BigDivSmall(a, d) ==
    LET res == BigDivSmallFrom(a, d, Len(a), 0)
    IN  [q |-> BigTrim(res.q), r |-> res.r]

BigFromInt(n) ==
    BigTrim(<<n % Limb, (n \div Limb) % Limb, n \div (Limb * Limb)>>)

\* The value of a, for a < 2^31.
BigToInt(a) ==
    BigLimb(a, 1) + BigLimb(a, 2) * Limb + BigLimb(a, 3) * Limb * Limb

F64Zero == [m |-> <<>>, e |-> 0]

\* q * 2^e, plus a non-zero part below q when sticky, rounded to 53
\* significant bits, ties to even.
F64Round(q, sticky, e) ==
    LET len == BigBitLen(q)
    IN  IF len = 0 THEN F64Zero
        ELSE IF len <= F64Bits
        THEN [m |-> BigShiftLeft(q, F64Bits - len),
              e |-> e - (F64Bits - len)]
        ELSE LET s == len - F64Bits
                 kept == BigShiftRight(q, s)
                 half == BigBit(q, s - 1) = 1
                 below == sticky \/ ~BigLowZero(q, s - 1)
                 up == half /\ (below \/ BigBit(kept, 0) = 1)
                 r == IF up THEN BigAdd(kept, <<1>>) ELSE kept
             IN  IF BigBitLen(r) > F64Bits
                 THEN [m |-> BigShiftRight(r, 1), e |-> e + s + 1]
                 ELSE [m |-> r, e |-> e + s]

\* float(n) for an integer 0 <= n < 2^31.
F64FromInt(n) == F64Round(BigFromInt(n), FALSE, 0)

\* a * b.
F64Mul(a, b) == F64Round(BigMul(a.m, b.m), FALSE, a.e + b.e)

\* a / n for a float a and an integer-valued float 0 < n < 2^15.
F64DivInt(a, n) ==
    LET res == BigDivSmall(BigShiftLeft(a.m, GuardBits), n)
    IN  F64Round(res.q, res.r # 0, a.e - GuardBits)

\* The float64 nearest to the ratio n / d of two positive integers below
\* 2^15: a decimal literal, or the true division of two ints.
F64FromRatio(n, d) == F64DivInt(F64FromInt(n), d)

\* int(a) for a >= 0: the fraction is dropped.
F64ToInt(a) ==
    IF a.e >= 0 THEN BigToInt(BigShiftLeft(a.m, a.e))
    ELSE BigToInt(BigShiftRight(a.m, 0 - a.e))

\* Exact arithmetic on values m * 2^e with m of any size: the significand
\* of a at the exponent e <= a.e, the difference a - b for a >= b, twice a,
\* and equality of the values.
ExactAt(a, e) == BigShiftLeft(a.m, a.e - e)
MinExp(a, b) == IF a.e < b.e THEN a.e ELSE b.e
ExactSub(a, b) ==
    [m |-> BigSub(ExactAt(a, MinExp(a, b)), ExactAt(b, MinExp(a, b))),
     e |-> MinExp(a, b)]
ExactDouble(a) == [m |-> a.m, e |-> a.e + 1]
ExactEq(a, b) == ExactAt(a, MinExp(a, b)) = ExactAt(b, MinExp(a, b))

\* a < b for two naturals without leading zero digits, compared from digit
\* i down; and a < b for two values m * 2^e.
RECURSIVE BigLessFrom(_, _, _)
BigLessFrom(a, b, i) ==
    IF i = 0 THEN FALSE
    ELSE IF a[i] # b[i] THEN a[i] < b[i]
    ELSE BigLessFrom(a, b, i - 1)
BigLess(a, b) ==
    IF Len(a) # Len(b) THEN Len(a) < Len(b) ELSE BigLessFrom(a, b, Len(a))
ExactLess(a, b) == BigLess(ExactAt(a, MinExp(a, b)), ExactAt(b, MinExp(a, b)))

\* The float a is the float64 nearest to n / d, for positive integers n and
\* d below 2^15 with n / d < 2: a has a full significand and lies within
\* half a unit of its last place of n / d.
NearestTo(a, n, d) ==
    LET scaled == BigMulSmall(a.m, d)
        exact == BigShiftLeft(BigFromInt(n), 0 - a.e)
        diff == IF BigLess(scaled, exact) THEN BigSub(exact, scaled)
                ELSE BigSub(scaled, exact)
    IN  /\ BigBitLen(a.m) = F64Bits
        /\ a.e < 0
        /\ BigBitLen(diff) <= LimbBits
        /\ 2 * BigToInt(diff) <= d

\* ------------------------------------------------------- frame schedule
\* Frame rates an AudioSynchronizer is built with; a rate that is not
\* positive takes the fallback frame duration.
FpsGrid == {0 - 1, 0, 15, 24, 25, 30, 50, 60, 120}

\* VideoProcessor.__init__: `self._fps = self.cap.get(cv2.CAP_PROP_FPS) or
\* 30`, for the rate cap_fps the decoder reports.
DefaultFps == 30
ProcessorFps(cap_fps) == IF cap_fps = 0 THEN DefaultFps ELSE cap_fps

\* A frame duration without a fallback value.
FrameDurationNoFallback(fps) ==
    IF fps > 0 THEN F64DivInt(F64FromInt(1), fps) ELSE F64Zero

\* AudioSynchronizer.__init__: `1.0 / fps if fps > 0 else 0.033`.
FrameDuration(fps) ==
    IF fps > 0 THEN F64DivInt(F64FromInt(1), fps) ELSE F64FromRatio(33, 1000)

\* An expected time in which the speed multiplies the delay.
ExpectedTimeF64Scaled(fc, fd, sp) ==
    F64Mul(F64Mul(F64FromInt(fc), fd), F64FromInt(sp))

\* wait_for_frame: `expected_time = self.frame_count * self.frame_duration
\* / speed_multiplier`, in float64, for an integer-valued speed.
ExpectedTimeF64(fc, fd, sp) == F64DivInt(F64Mul(F64FromInt(fc), fd), sp)

\* The decoder reports the frame rate cap_fps; a synchronizer built with
\* that rate as it is, or with the fps of a VideoProcessor as the player
\* builds it, has shown call.frame_count frames and is asked to wait for
\* the next two, at speed 1.0 or 2.0.
ScheduleInit ==
    /\ OnlyConverting
    /\ PixelIdle
    /\ call \in {c \in [fn : {"wait_for_frame"}, cap_fps : FpsGrid,
                         fps : FpsGrid, frame_count : 0..MaxCount,
                         speed_multiplier : Speeds] :
                    c.fps \in {c.cap_fps, ProcessorFps(c.cap_fps)}}
    /\ returned = [fn |-> "wait_for_frame", expected_time |-> <<>>]

\* wait_for_frame, as far as expected_time; the call ends with
\* `self.frame_count += 1`.
WaitForFrameExpected ==
    /\ call.fn = "wait_for_frame"
    /\ Len(returned.expected_time) < 2
    /\ returned' = [returned EXCEPT !.expected_time =
                 Append(@, ExpectedTimeF64(
                              call.frame_count + Len(returned.expected_time),
                              FrameDuration(call.fps),
                              call.speed_multiplier))]
    /\ UNCHANGED <<playerVars, charset, sample, ascii_str, ascii_arr,
                   colorVars, call>>

ScheduleNext == WaitForFrameExpected

ScheduleSpec == ScheduleInit /\ [][ScheduleNext]_vars


\* ------------------------------------------------ an audio track client
\* A caller of the AudioProcessor API alone: after extract_audio has ended
\* in any way, or was never called, it calls play_async(), stop(),
\* cleanup() and get_current_playback_time() in any order, MaxCalls times
\* in all, while the playback worker and the player process run.  It is at
\* "try_enter" between two calls and has the audio played once.
TrackInit ==
    /\ now = 0
    /\ mainPc = "try_enter"
    /\ stopRet = "none"
    /\ pending = "none"
    /\ signal = NoSignal
    /\ source = "file"
    /\ audio_enabled = TRUE
    /\ export = FALSE
    /\ speed = 1
    /\ skip = 0
    /\ audio_processor = TRUE
    /\ extractResult \in ExtractOutcomes \cup {"none"}
    /\ audio_file_path = (extractResult # "none" /\ PathSetAfter(extractResult))
    /\ fileExists \in BOOLEAN
    /\ fileExists => audio_file_path
    /\ extractResult = "ok" => fileExists
    /\ is_playing = FALSE
    /\ playback_start_time = NoTime
    /\ playback_process = 0
    /\ wpc = [w \in Workers |-> "idle"]
    /\ wCands = [w \in Workers |-> <<>>]
    /\ waitOn = [w \in Workers |-> 0]
    /\ wDone = [w \in Workers |-> {}]
    /\ procState = [w \in Workers |-> "none"]
    /\ start_time = NoTime
    /\ frame_count = 0
    /\ iterStart = 0
    /\ processing_time = 0
    /\ actual_time = 0
    /\ wakeAt = 0
    /\ calls = 0
    /\ capAttr = TRUE
    /\ capOpen = TRUE
    /\ closeCalls = 0
    /\ released = 0
    /\ closeRaised = FALSE
    /\ stream = MaxFrames
    /\ decoded = 0
    /\ out = <<>>
    /\ frame_num = 0
    /\ rendered = 0
    /\ yielded = 0
    /\ stopCalls = 0
    /\ PixelIdle
    /\ call = [fn |-> "none", prev |-> "none", n |-> 0, wpc |-> wpc,
               stops |-> 0]
    /\ returned = NoCall

\* The caller makes its next call: the call, the call before it, their
\* number, and where the playback workers and the count of stop() calls
\* are when it is made.
Issue(f) ==
    [fn |-> f, prev |-> call.fn, n |-> call.n + 1, wpc |-> wpc,
     stops |-> stopCalls]

trackIdleVars ==
    <<now, pending, signal, stopCalls, envVars, audioVars, workerVars,
      syncVars, videoVars, charset, sample, ascii_str, ascii_arr, colorVars>>

\* play_async() is called.
ClientPlayAsync ==
    /\ mainPc = "try_enter"
    /\ call.n < MaxCalls
    /\ ~NoAudioFile => \A w \in Workers : wpc[w] = "idle"
    /\ mainPc' = "play_async"
    /\ call' = Issue("play_async")
    /\ UNCHANGED <<trackIdleVars, stopRet, returned>>

\* stop() is called.
ClientStop ==
    /\ mainPc = "try_enter"
    /\ call.n < MaxCalls
    /\ mainPc' = "stop1"
    /\ stopRet' = "stop"
    /\ call' = Issue("stop")
    /\ UNCHANGED <<trackIdleVars, returned>>

\* cleanup() is called: `self.stop()` first.
ClientCleanup ==
    /\ mainPc = "try_enter"
    /\ call.n < MaxCalls
    /\ mainPc' = "stop1"
    /\ stopRet' = "client_cleanup"
    /\ call' = Issue("cleanup")
    /\ UNCHANGED <<trackIdleVars, returned>>

\* get_current_playback_time() is called and returns.
ClientGetTime ==
    /\ mainPc = "try_enter"
    /\ call.n < MaxCalls
    /\ call' = Issue("get_current_playback_time")
    /\ returned' = [fn |-> "get_current_playback_time",
                    value |-> CurrentPlaybackTime]
    /\ UNCHANGED <<trackIdleVars, mainPc, stopRet>>

TrackNext ==
    \/ ClientPlayAsync \/ ClientStop \/ ClientCleanup \/ ClientGetTime
    \/ PlayAsync \/ Stop1 \/ Stop2 \/ Stop3 \/ ThreadStart \/ CleanupUnlink
    \/ WorkerStep \/ Tick

TrackSpec == TrackInit /\ [][TrackNext]_vars

\* ------------------------------------------- overlapping playbacks
\* A caller of play_async() that calls it again while the worker of an
\* earlier call may still be alive: one worker more than the player ever
\* starts.
Sessions == 1..(MaxWorkers + 1)

OverlapInit ==
    /\ now = 0
    /\ mainPc = "try_enter"
    /\ stopRet = "none"
    /\ pending = "none"
    /\ signal = NoSignal
    /\ source = "file"
    /\ audio_enabled = TRUE
    /\ export = FALSE
    /\ speed = 1
    /\ skip = 0
    /\ audio_processor = TRUE
    /\ extractResult = "ok"
    /\ audio_file_path = TRUE
    /\ fileExists = TRUE
    /\ is_playing = FALSE
    /\ playback_start_time = NoTime
    /\ playback_process = 0
    /\ wpc = [w \in Sessions |-> "idle"]
    /\ wCands = [w \in Sessions |-> <<>>]
    /\ waitOn = [w \in Sessions |-> 0]
    /\ wDone = [w \in Sessions |-> {}]
    /\ procState = [w \in Sessions |-> "none"]
    /\ start_time = NoTime
    /\ frame_count = 0
    /\ iterStart = 0
    /\ processing_time = 0
    /\ actual_time = 0
    /\ wakeAt = 0
    /\ calls = 0
    /\ capAttr = TRUE
    /\ capOpen = TRUE
    /\ closeCalls = 0
    /\ released = 0
    /\ closeRaised = FALSE
    /\ stream = MaxFrames
    /\ decoded = 0
    /\ out = <<>>
    /\ frame_num = 0
    /\ rendered = 0
    /\ yielded = 0
    /\ stopCalls = 0
    /\ PixelIdle
    /\ call = [fn |-> "none", prev |-> "none", n |-> 0, wpc |-> wpc,
               stops |-> 0]
    /\ returned = NoCall

\* play_async() is called, whatever the earlier workers are doing.
OverlapPlayAsync ==
    /\ mainPc = "try_enter"
    /\ call.n < MaxCalls
    /\ \E w \in DOMAIN wpc : wpc[w] = "idle"
    /\ mainPc' = "play_async"
    /\ call' = Issue("play_async")
    /\ UNCHANGED <<trackIdleVars, stopRet, returned>>

OverlapNext ==
    \/ OverlapPlayAsync \/ PlayAsync \/ Stop1 \/ Stop2 \/ Stop3
    \/ ThreadStart \/ WorkerStep \/ Tick

OverlapSpec == OverlapInit /\ [][OverlapNext]_vars

\* ------------------------------------------------------ resize_frame
\* config.ASPECT_RATIO_CORRECTION = 0.55, as the ratio of two integers.
AspectNum == 55
AspectDen == 100
ASPECT_RATIO_CORRECTION == F64FromRatio(AspectNum, AspectDen)

\* Output widths a converter is built with (-w), the smallest the command
\* line accepts and the default among them.
OutputWidths == {20, 40, 78, 80, 100, 120, 160, 200}

\* frame.shape of the frames given to resize_frame: <<height, width>>.
FrameShapes ==
    {<<1080, 1920>>, <<720, 1280>>, <<480, 640>>, <<1920, 1080>>,
     <<240, 320>>, <<30, 13>>, <<64, 1024>>, <<100, 4000>>}

\* round(a) for a float a >= 0: the nearest integer, ties to even.
F64RoundToInt(a) ==
    IF a.e >= 0 THEN BigToInt(BigShiftLeft(a.m, a.e))
    ELSE LET s == 0 - a.e
             kept == BigToInt(BigShiftRight(a.m, s))
             half == BigBit(a.m, s - 1) = 1
             below == ~BigLowZero(a.m, s - 1)
         IN  IF half /\ (below \/ kept % 2 = 1) THEN kept + 1 ELSE kept

\* `self.width * aspect_ratio * ASPECT_RATIO_CORRECTION` with
\* `aspect_ratio = height / width`, in float64.
ScaledHeight(output_width, shape) ==
    F64Mul(F64Mul(F64FromInt(output_width),
                  F64FromRatio(shape[1], shape[2])),
           ASPECT_RATIO_CORRECTION)

\* `new_height = int(...)`.
NewHeight(output_width, shape) == F64ToInt(ScaledHeight(output_width, shape))

\* A converter of any output width is given a frame of any geometry.
ResizeInit ==
    /\ OnlyConverting
    /\ PixelIdle
    /\ call \in [fn : {"resize_frame"}, width : OutputWidths,
                 shape : FrameShapes]
    /\ returned = NoCall

\* resize_frame(frame): cv2.resize to (self.width, new_height) returns an
\* array of new_height rows and self.width columns, and raises cv2.error
\* for a target without rows.
ResizeFrame ==
    /\ call.fn = "resize_frame"
    /\ returned = NoCall
    /\ LET new_height == NewHeight(call.width, call.shape)
       IN  returned' =
               IF new_height = 0
               THEN [fn |-> "resize_frame", outcome |-> "cv2.error",
                     shape |-> <<>>]
               ELSE [fn |-> "resize_frame", outcome |-> "ok",
                     shape |-> <<new_height, call.width>>]
    /\ UNCHANGED <<playerVars, charset, sample, ascii_str, ascii_arr,
                   colorVars, call>>

ResizeNext == ResizeFrame

ResizeSpec == ResizeInit /\ [][ResizeNext]_vars

\* ------------------------------------------------------- entry points
\* config.DEFAULT_WIDTH and the smallest width main() accepts.
DEFAULT_WIDTH == 120
MinWidth == 20
\* Speeds are counted in tenths: config.DEFAULT_SPEED = 1.0.
DEFAULT_SPEED == 10

\* Values of --width and of --speed (in tenths) given on a command line.
WidthArgs == {0 - 1, 0, 5, 19, 20, 21, 80, 120, 300, 301}
SpeedArgs == {0 - 10, 0, 5, 10, 20}

\* A command line of main.py with any width and speed, or one of
\* examples/batch_convert.py with any width (it has no --speed, the player
\* takes the default); the video opens or not.
EntryInit ==
    /\ OnlyConverting
    /\ PixelIdle
    /\ call \in [fn : {"main"}, width : WidthArgs, speed : SpeedArgs,
                 opens : BOOLEAN]
           \cup [fn : {"batch_convert"}, width : WidthArgs,
                 speed : {DEFAULT_SPEED}, opens : BOOLEAN]
    /\ returned = NoCall

\* ASCIIVideoPlayer.__init__(video_path, width, ..., speed): the arguments
\* are stored as given; VideoProcessor comes first and its failure exits,
\* then ASCIIConverter(width, charset) and the synchronizer are built.
NewPlayer(f, w, s, opens) ==
    IF opens
    THEN [fn |-> f, outcome |-> "player", width |-> w, speed |-> s,
          components |-> {"VideoProcessor", "ASCIIConverter",
                          "AudioSynchronizer"}]
    ELSE [fn |-> f, outcome |-> "exit_1", width |-> w, speed |-> s,
          components |-> {}]

\* main() from the parsed arguments to the constructed player.
MainEntry ==
    /\ call.fn = "main"
    /\ returned = NoCall
    /\ returned' =
           IF call.width < MinWidth \/ call.speed <= 0
           THEN [fn |-> "main", outcome |-> "exit_1", width |-> call.width,
                 speed |-> call.speed, components |-> {}]
           ELSE NewPlayer("main", call.width, call.speed, call.opens)
    /\ UNCHANGED <<playerVars, charset, sample, ascii_str, ascii_arr,
                   colorVars, call>>

\* batch_convert(input_dir, output_dir, width, charset, pattern) at the
\* first video file it finds: the player is built with the width given.
BatchConvert ==
    /\ call.fn = "batch_convert"
    /\ returned = NoCall
    /\ returned' = NewPlayer("batch_convert", call.width, DEFAULT_SPEED,
                             call.opens)
    /\ UNCHANGED <<playerVars, charset, sample, ascii_str, ascii_arr,
                   colorVars, call>>

EntryNext == MainEntry \/ BatchConvert

EntrySpec == EntryInit /\ [][EntryNext]_vars

\* ------------------------------------------------------- get_charset
\* Every way of writing a string with each letter in lower or upper case.
RECURSIVE CaseVariants(_)
CaseVariants(s) ==
    IF s = <<>> THEN {<<>>}
    ELSE {<<c>> \o t : c \in {s[1], s[1] - 32}, t \in CaseVariants(Tail(s))}

\* Names that are no key in any letter case: the empty string,
\* "invalid_charset_name", "standard " and " simple" with a space,
\* "blocks", "bin" and "ascii"; and "bloc" followed by the Kelvin sign,
\* which lower() turns into "block".
OtherNames ==
    {<<>>,
     <<105, 110, 118, 97, 108, 105, 100, 95, 99, 104, 97, 114, 115, 101, 116,
       95, 110, 97, 109, 101>>,
     <<115, 116, 97, 110, 100, 97, 114, 100, 32>>,
     <<32, 115, 105, 109, 112, 108, 101>>,
     <<98, 108, 111, 99, 107, 115>>,
     <<98, 105, 110>>,
     <<97, 115, 99, 105, 105>>,
     <<98, 108, 111, 99, 8490>>}

\* Names get_charset is called with: every registered name in every
\* letter case, and the names above.
CharsetNames ==
    UNION {CaseVariants(Spelling[k]) : k \in list_charsets} \cup OtherNames

\* get_charset is called with any of these names.
CharsetInit ==
    /\ OnlyConverting
    /\ PixelIdle
    /\ call \in [fn : {"get_charset"}, name : CharsetNames]
    /\ returned = NoCall

\* The call returns or raises.
GetCharset ==
    /\ call.fn = "get_charset"
    /\ returned = NoCall
    /\ returned' = [fn |-> "get_charset"] @@ get_charset(call.name)
    /\ UNCHANGED <<playerVars, charset, sample, ascii_str, ascii_arr,
                   colorVars, call>>

CharsetNext == GetCharset

CharsetSpec == CharsetInit /\ [][CharsetNext]_vars

\* ----------------------------------------------------------------- claims

\* C1: every value wait_for_frame takes as actual_time is a clock reading:
\* the time elapsed since playback_start_time, or the time elapsed since the
\* synchronizer's start_time.
C1_ActualIsClockReading ==
    [][(mainPc \in {"wf_check", "wf_gcpt"} /\ mainPc' = "wf_decide") =>
         \/ actual_time' = now - start_time'
         \/ /\ playback_start_time # NoTime
            /\ actual_time' = now - playback_start_time]_vars

\* C2: wait_for_frame sleeps exactly when
\* frame_count * frame_duration / speed - actual - processing_time is > 0,
\* and then for that long; it never sleeps a negative time; and each call,
\* sleeping or not, adds exactly one to frame_count.
C2_SleepAndCount ==
    /\ [](frame_count = calls)
    /\ [](mainPc = "wf_sleeping" => wakeAt >= 1)
    /\ [][(mainPc = "wf_decide" /\ mainPc' \in {"wf_sleeping", "loop_next"}) =>
            LET st == (frame_count * frame_duration) \div speed
                        - actual_time - processing_time
            IN  /\ (mainPc' = "wf_sleeping") <=> (st > 0)
                /\ mainPc' = "wf_sleeping" =>
                     /\ wakeAt' - now = st
                     /\ frame_count' = frame_count
                /\ mainPc' = "loop_next" => frame_count' = frame_count + 1]_vars
    /\ [][(mainPc = "wf_sleeping" /\ mainPc' = "loop_next") =>
            /\ now >= wakeAt
            /\ frame_count' = frame_count + 1]_vars

\* C2 witness: the first call has returned without sleeping (its expected
\* time is 0) and the second call is asleep for a positive time.
C2_Witness ==
    /\ mainPc = "wf_sleeping"
    /\ calls = 1
    /\ frame_count = 1
    /\ wakeAt > now

\* C3 as claimed: once play_async has started its worker and returned, the
\* track is Playing and the start timestamp is recorded.
C3_PlayingWhenPlayAsyncReturns ==
    \A w \in Workers :
       wpc[w] # "idle" => {"playing", "start"} \subseteq wDone[w]

\* C3 as amended: a worker that has reached its delay wait, or has launched a
\* player process, has set is_playing and recorded playback_start_time.
C3_SetBeforeDelayAndLaunch ==
    \A w \in Workers :
       (wpc[w] \in {"delay", "launch", "assign", "wait_call", "waiting"}
          \/ procState[w] # "none")
       => {"playing", "start"} \subseteq wDone[w]

\* C3 witness: a worker's player process runs, the track is Playing and the
\* start timestamp is recorded.
C3_Witness ==
    \E w \in Workers :
       /\ procState[w] = "running"
       /\ wDone[w] = {"playing", "start"}
       /\ is_playing
       /\ playback_start_time # NoTime

\* C4: a reader of the main sequence that sees is_playing = True sees a
\* recorded playback_start_time.
C4_ConsistentPair ==
    (mainPc \in {"wf_check", "wf_gcpt"} /\ is_playing)
       => playback_start_time # NoTime

\* C5: after the stop() call of cleanup() has returned, the track is not
\* Playing and no player process is running.
C5_StoppedStaysStopped ==
    mainPc = "unlink" =>
       /\ ~is_playing
       /\ \A w \in Workers : procState[w] # "running"

\* C6: after a failed extract_audio the track never plays: is_playing stays
\* False, no worker and no player process is started, and wait_for_frame
\* never asks the track for its playback time.
C6_FailedExtractionDisablesAudio ==
    extractResult \in ExtractFailures =>
       /\ ~is_playing
       /\ mainPc # "wf_gcpt"
       /\ \A w \in Workers : wpc[w] = "idle" /\ procState[w] = "none"

\* C7: once the frame source has opened its source (an existing file or a
\* camera index), the program does not end in sys.exit(1).
C7_AudioNeverFatal ==
    (source \in {"file", "camera"} /\ capOpen) => mainPc # "sysexit"

\* C9: when a user interrupt arrived after start() had returned and the
\* program has ended, stop() was invoked after the interrupt and no player
\* process is running.
C9_InterruptStopsAudio ==
    (/\ mainPc \in Terminal
     /\ audio_processor
     /\ \/ signal.at \in InTry \cup {"try_enter", "finally", "unlink"}
        \/ signal.at \in {"stop1", "stop2", "stop3"} /\ stopRet = "cleanup")
    => /\ stopCalls > signal.stops
       /\ \A w \in Workers : procState[w] # "running"

\* C10: when play() or export_frames() has been left after get_frames
\* yielded a frame, VideoProcessor.close() has been called.
C10_CloseOnEveryExit ==
    (mainPc \in {"returned", "raised"} /\ yielded > 0) => closeCalls > 0

\* C8: once play() has entered its loop, whatever the playback worker and the
\* player process do, the main thread leaves play() with processor.close()
\* called, and, unless rendering itself raised, with every frame get_frames
\* yielded rendered.
C8_LoopTerminates ==
    (mainPc = "loop_next") ~>
        (/\ mainPc \in Terminal
         /\ closeCalls > 0
         /\ ~capOpen
         /\ pending = "none" => rendered = yielded)

\* C8 witness: play() has returned with every frame rendered and the decoder
\* closed although the player process ended on its own before the video.
C8_Witness ==
    /\ mainPc = "returned"
    /\ rendered = yielded
    /\ rendered >= 2
    /\ closeCalls > 0
    /\ \E w \in Workers : procState[w] = "exited" /\ wpc[w] = "done"

\* C11: no close() call raises, the decoder is released at most once, and
\* after a close() call the decoder is not open: the first call released the
\* decoder the constructor had opened and the later ones release nothing.
C11_CloseIdempotent ==
    /\ ~closeRaised
    /\ released <= 1
    /\ closeCalls > 0 =>
          /\ ~capOpen
          /\ source \in {"file", "camera"} => released = 1

\* C12: while get_frames runs, every frame read from the decoder has taken
\* the next number (frame_num counts the reads), and the pairs yielded so far
\* are exactly the frames whose number is a multiple of skip + 1, in
\* increasing order, each with its own number.
C12_NumberingAndSkip ==
    mainPc \in {"vp_iter", "vp_end"} =>
       /\ frame_num = decoded
       /\ Len(out) = (decoded + skip) \div (skip + 1)
       /\ \A i \in 1..Len(out) :
             /\ out[i][1] = (i - 1) * (skip + 1)
             /\ out[i][2] = out[i][1]
             /\ i > 1 => out[i][1] > out[i - 1][1]

\* C12 witness: with skip = 1 a frame was skipped and the frame after it was
\* yielded with number 2.
C12_Witness ==
    /\ skip = 1
    /\ Len(out) = 2
    /\ out[2] = <<2, 2>>
    /\ decoded >= 3

\* C13: whatever frame_to_ascii or get_ascii_array computed for a pixel, the
\* index lies in 0 .. N-1 for the charset's length N, and indexing the
\* charset with it gave a glyph of the charset, not an IndexError.
C13_IndexInRange ==
    LET cs == CHARSETS[charset]
    IN  \A r \in {ascii_str, ascii_arr} :
           r # NoResult =>
              /\ r.idx \in 0..(Len(cs) - 1)
              /\ r.glyph # IndexError
              /\ r.glyph = cs[r.idx + 1]

\* C13 witness: the brightest sample was converted with the longest charset
\* and got its last index.
C13_Witness ==
    /\ charset = "detailed"
    /\ sample = 255
    /\ ascii_str.idx = 79
    /\ ascii_arr.idx = 79

\* C14: the index frame_to_ascii computed for a sample is no smaller than
\* the index of any darker sample and no larger than the index of any
\* brighter one, for the same charset.
C14_Monotonic ==
    ascii_str # NoResult =>
       /\ ascii_str.idx = IndexTable[charset][sample]
       /\ \A t \in Samples :
             /\ t <= sample => IndexTable[charset][t] <= ascii_str.idx
             /\ sample <= t => ascii_str.idx <= IndexTable[charset][t]

\* C14 witness: a sample got an index strictly between those of a darker and
\* of a brighter sample.
C14_Witness ==
    /\ ascii_str # NoResult
    /\ \E a \in Samples, b \in Samples :
          /\ a < sample /\ sample < b
          /\ IndexTable[charset][a] < ascii_str.idx
          /\ ascii_str.idx < IndexTable[charset][b]

\* C15: the index of a sample s is floor(s * (N-1) / 255) and the glyph is
\* the charset's glyph at that index; s = 0 gets the first glyph and s = 255
\* the last; with 4 glyphs s = 128 gets index 1; frame_to_ascii and
\* get_ascii_array give the same glyph for the same sample.
C15_FloorMapping ==
    LET cs == CHARSETS[charset]
        n == Len(cs)
    IN  /\ \A r \in {ascii_str, ascii_arr} :
              r # NoResult =>
                 /\ r.idx = (sample * (n - 1)) \div 255
                 /\ r.glyph = cs[(sample * (n - 1)) \div 255 + 1]
                 /\ sample = 0 => r.glyph = cs[1]
                 /\ sample = 255 => r.glyph = cs[n]
        /\ (ascii_str # NoResult /\ ascii_arr # NoResult) =>
              ascii_str = ascii_arr
        /\ ascii_str # NoResult =>
              /\ FrameToAsciiIndex(0, 4) = 0
              /\ FrameToAsciiIndex(128, 4) = 1
              /\ FrameToAsciiIndex(255, 4) = 3
        /\ ascii_arr # NoResult => GetAsciiArrayIndex(128, 4) = 1

\* C15 witness: both conversions were applied to a sample whose exact
\* quotient s * (N-1) / 255 is a whole number that float32 cannot reach by
\* way of s / 255 without rounding (85 / 255 = 1/3, N = 10).
C15_Witness ==
    /\ charset = "simple"
    /\ sample = 85
    /\ ascii_str.idx = 3
    /\ ascii_arr.idx = 3

\* The colour directive of the row's first glyph, in 256-colour mode.
Code256 == colored[1].sgr[3]

\* C16: in 256-colour mode the code is 16 + 36*r' + 6*g' + b' where each of
\* r', g', b' is the level in 0..5 nearest to channel/255*5, so it lies in
\* 16..231; black gives 16 and white gives 231; every channel value has
\* such a level.
C16_ColorCube ==
    /\ (colored # <<>> /\ ~use_truecolor /\ use_256_colors) =>
          /\ colored[1].sgr[1] = 38 /\ colored[1].sgr[2] = 5
          /\ Code256 \in 16..231
          /\ \E lr \in 0..5, lg \in 0..5, lb \in 0..5 :
                /\ Code256 = 16 + 36 * lr + 6 * lg + lb
                /\ 2 * (5 * rgb[1] - 255 * lr) \in (0 - 254)..254
                /\ 2 * (5 * rgb[2] - 255 * lg) \in (0 - 254)..254
                /\ 2 * (5 * rgb[3] - 255 * lb) \in (0 - 254)..254
          /\ rgb = <<0, 0, 0>> => Code256 = 16
          /\ rgb = <<255, 255, 255>> => Code256 = 231
          /\ \A c \in Samples :
                /\ Quantize(c) \in 0..5
                /\ 2 * (5 * c - 255 * Quantize(c)) \in (0 - 254)..254

\* C16 witness: white was coloured in 256-colour mode and got code 231.
C16_Witness ==
    /\ ~use_truecolor /\ use_256_colors
    /\ rgb = <<255, 255, 255>>
    /\ colored # <<>>
    /\ colored[1] = Sgr(<<38, 5, 231>>)

\* The colour directive of the row's first glyph, in 16-colour mode.
Code16 == colored[1].sgr[1]

\* The strictly dominant channel gets its slot: red 31, green 32, blue 34.
DominantSlot ==
    /\ (rgb[1] > rgb[2] /\ rgb[1] > rgb[3]) => Code16 = 31
    /\ (rgb[2] > rgb[1] /\ rgb[2] > rgb[3]) => Code16 = 32
    /\ (rgb[3] > rgb[1] /\ rgb[3] > rgb[2]) => Code16 = 34

\* C17 as claimed: in 16-colour mode a pixel whose average (r+g+b)/3 is
\* below 50 gets 30, one whose average is above 200 gets 37, and any other
\* gets the slot of its strictly dominant channel when it has one.
C17_AverageThresholds ==
    (colored # <<>> /\ ~use_truecolor /\ ~use_256_colors) =>
       LET sum == rgb[1] + rgb[2] + rgb[3]
       IN  /\ sum < 3 * 50 => Code16 = 30
           /\ sum > 3 * 200 => Code16 = 37
           /\ (sum >= 3 * 50 /\ sum <= 3 * 200) => DominantSlot

\* C17 as amended: the thresholds apply to the average rounded down to a
\* whole number, (r+g+b) // 3; black gives 30, white 37, pure red 31.
C17_FlooredAverageThresholds ==
    (colored # <<>> /\ ~use_truecolor /\ ~use_256_colors) =>
       LET brightness == (rgb[1] + rgb[2] + rgb[3]) \div 3
       IN  /\ Len(colored[1].sgr) = 1
           /\ brightness < 50 => Code16 = 30
           /\ brightness > 200 => Code16 = 37
           /\ (brightness >= 50 /\ brightness <= 200) => DominantSlot
           /\ rgb = <<0, 0, 0>> => Code16 = 30
           /\ rgb = <<255, 255, 255>> => Code16 = 37
           /\ rgb = <<255, 0, 0>> => Code16 = 31

\* C17 witness: a pixel whose average is above 200 and whose rounded-down
\* average is 200 was coloured in 16-colour mode, and got its dominant
\* channel's slot.
C17_Witness ==
    /\ ~use_truecolor /\ ~use_256_colors
    /\ rgb = <<201, 200, 200>>
    /\ colored # <<>>
    /\ Code16 = 31

\* C18: the row colorize_frame has built so far is, glyph after glyph, one
\* colour directive of the mode the flags select (truecolor with r, g, b
\* unchanged, else 256-colour, else 16-colour), the glyph, and the reset
\* directive.
C18_DirectiveGlyphReset ==
    /\ Len(colored) % 3 = 0
    /\ \A i \in 1..(Len(colored) \div 3) :
          LET d == colored[3 * i - 2]
              ch == colored[3 * i - 1]
              rs == colored[3 * i]
          IN  /\ ch = ascii_arr.glyph
              /\ rs = [sgr |-> <<0>>]
              /\ d # rs
              /\ use_truecolor =>
                    d = [sgr |-> <<38, 2, rgb[1], rgb[2], rgb[3]>>]
              /\ (~use_truecolor /\ use_256_colors) =>
                    /\ Len(d.sgr) = 3
                    /\ d.sgr[1] = 38 /\ d.sgr[2] = 5
                    /\ d.sgr[3] \in 16..231
              /\ (~use_truecolor /\ ~use_256_colors) =>
                    /\ Len(d.sgr) = 1
                    /\ d.sgr[1] \in 30..37

\* C18 witness: a row of two glyphs was coloured with both flags set, and
\* truecolor was used.
C18_Witness ==
    /\ use_truecolor /\ use_256_colors
    /\ rgb = <<255, 128, 0>>
    /\ Len(colored) = 6
    /\ colored[4] = [sgr |-> <<38, 2, 255, 128, 0>>]
    /\ colored[6] = [sgr |-> <<0>>]

\* C19: a step that changes frame_count or a recorded start_time is either
\* start(), which sets the count to 0 and the start time to the clock, or
\* the end of a wait_for_frame call, which adds one to the count, keeps the
\* start time and does not lower the expected time
\* frame_count * frame_duration / speed.  wait_for_frame writes start_time
\* only when none was recorded.
C19_MonotonicUntilStart ==
    [][/\ frame_count' # frame_count =>
            \/ /\ mainPc = "constructed"
               /\ frame_count' = 0
               /\ start_time' = now
            \/ /\ mainPc \in {"wf_decide", "wf_sleeping"}
               /\ frame_count' = frame_count + 1
               /\ (frame_count' * frame_duration) \div speed
                     >= (frame_count * frame_duration) \div speed
               /\ start_time' = start_time
       /\ start_time' # start_time =>
            \/ mainPc = "constructed" /\ start_time' = now
            \/ mainPc = "wf_check" /\ start_time = NoTime
       /\ speed' = speed]_vars

\* C19 witness: start() has reset the clock after a frame was paced: the
\* count is 0 again and the start time is a later clock reading.
C19_Witness ==
    /\ mainPc = "try_enter"
    /\ rendered >= 1
    /\ frame_count = 0
    /\ start_time >= 1

\* C20: start(play_audio) sets frame_count to 0 and start_time to the
\* clock; it calls play_async exactly when play_audio is true and there is
\* an audio processor; otherwise it returns with the audio processor and the
\* playback workers as they were.
C20_StartRequestsPlayback ==
    [][(mainPc = "constructed" /\ mainPc' # "constructed") =>
          /\ frame_count' = 0
          /\ start_time' = now
          /\ (mainPc' = "play_async") <=> (audio_enabled /\ audio_processor)
          /\ mainPc' # "play_async" =>
                /\ mainPc' = "try_enter"
                /\ UNCHANGED <<audioVars, workerVars, stopCalls>>]_vars

\* C20 witness: start(False) has returned on a synchronizer that has an
\* audio processor with an extracted file, and nothing was played.
C20_Witness ==
    /\ mainPc = "try_enter"
    /\ ~audio_enabled
    /\ audio_processor
    /\ ~NoAudioFile
    /\ start_time # NoTime
    /\ stopCalls = 0
    /\ \A w \in Workers : wpc[w] = "idle"

\* The exact spacing between the expected times of frame N and frame N+1
\* at speed sp, for the frame rate and the frame count N of the call.
SpacingAt(sp) ==
    ExactSub(ExpectedTimeF64(call.frame_count + 1, FrameDuration(call.fps), sp),
             ExpectedTimeF64(call.frame_count, FrameDuration(call.fps), sp))

\* C21: for the same frame duration, the spacing between the expected times
\* of frame N and frame N+1 at speed 2.0 is exactly half the spacing at
\* speed 1.0, for every N: the spacing of the two expected times a
\* synchronizer computed at one speed, against the spacing at the other.
C21_HalfSpacing ==
    (call.fn = "wait_for_frame" /\ Len(returned.expected_time) = 2) =>
       LET observed ==
             ExactSub(returned.expected_time[2], returned.expected_time[1])
       IN  /\ call.speed_multiplier = 2 =>
                ExactEq(ExactDouble(observed), SpacingAt(1))
           /\ call.speed_multiplier = 1 =>
                ExactEq(observed, ExactDouble(SpacingAt(2)))

\* Two frames were scheduled at speed 2.0, some frames into the stream, and
\* their expected times differ.
C21_Witness ==
    /\ call.fn = "wait_for_frame"
    /\ call.speed_multiplier = 2
    /\ call.frame_count > 0
    /\ call.fps > 0
    /\ Len(returned.expected_time) = 2
    /\ returned.expected_time[1] # returned.expected_time[2]

VpFailed == mainPc # "vp_new" /\ ~capOpen /\ released = 0

\* C24: VideoProcessor(source) fails, before any frame can be produced, when
\* a path-type source does not exist or when the decoder cannot open the
\* source; a source string that parses as an integer is a camera index and
\* is not subject to the path-existence check: it is constructed whenever
\* the decoder opens it, whether or not a file of that name exists.
C24_ConstructorFails ==
    mainPc # "vp_new" =>
       /\ (~ParsesAsInt(call.video_path) /\ ~call.exists) => VpFailed
       /\ ~call.opens => VpFailed
       /\ VpFailed => (decoded = 0 /\ yielded = 0 /\ out = <<>>)
       /\ (ParsesAsInt(call.video_path) /\ call.opens) => ~VpFailed
       /\ (call.exists /\ call.opens) => ~VpFailed

\* The string "-1" names no existing file, was taken as a camera index and
\* a frame was read from the camera.
C24_Witness ==
    /\ call.fn = "VideoProcessor"
    /\ call.video_path = <<45, 49>>
    /\ ~call.exists
    /\ capAttr
    /\ yielded > 0

\* C25: for every frame geometry and configured output width, resize_frame
\* returns a grid whose height is round(output_width * (height / width) *
\* 0.55) and whose width is the configured output width.
C25_RoundedHeight ==
    returned.fn = "resize_frame" =>
       /\ returned.outcome = "ok"
       /\ returned.shape =
              <<F64RoundToInt(ScaledHeight(call.width, call.shape)),
                call.width>>

\* C26: no ASCIIVideoPlayer, and none of its components, is constructed
\* with an output width below 20 or with a speed <= 0, on the command-line
\* entry point or in batch conversion; the built-in default width and
\* speed satisfy these bounds.
C26_InvalidConfigRejected ==
    /\ DEFAULT_WIDTH >= MinWidth
    /\ DEFAULT_SPEED > 0
    /\ (returned.fn \in {"main", "batch_convert"}
        /\ returned.components # {})
          => (returned.width >= MinWidth /\ returned.speed > 0)

\* C27: every charset registered in CHARSETS has at least two glyphs, and
\* for every name list_charsets() returns, get_charset(name) succeeds and
\* returns that charset.
C27_CharsetsUsable ==
    /\ \A k \in DOMAIN CHARSETS : Len(CHARSETS[k]) >= 2
    /\ \A k \in list_charsets :
          (call.name = Spelling[k] /\ returned.fn = "get_charset")
             => /\ returned.outcome = "ok"
                /\ returned.charset = CHARSETS[k]
                /\ Len(returned.charset) >= 2

\* get_charset("binary") returned the three glyphs of the shortest charset.
C27_Witness ==
    /\ call.name = Spelling["binary"]
    /\ returned.fn = "get_charset"
    /\ returned.outcome = "ok"
    /\ Len(returned.charset) = 3

\* Two strings differ at most in the case of ASCII letters.
SameButCase(s, t) ==
    /\ Len(s) = Len(t)
    /\ \A i \in 1..Len(s) :
          \/ s[i] = t[i]
          \/ (t[i] >= 97 /\ t[i] <= 122 /\ s[i] = t[i] - 32)

\* C28: get_charset(name) raises ValueError, and returns nothing, for every
\* name whose lower-cased form is not a key of CHARSETS; a known name in
\* any letter case gets the charset registered under it.
C28_UnknownNameRaises ==
    returned.fn = "get_charset" =>
       /\ (\A k \in DOMAIN CHARSETS : Lower(call.name) # Spelling[k])
             => (returned.outcome = "ValueError" /\ returned.charset = <<>>)
       /\ \A k \in DOMAIN CHARSETS :
             SameButCase(call.name, Spelling[k])
                => (returned.outcome = "ok"
                    /\ returned.charset = CHARSETS[k])
       /\ returned.outcome = "ok"
             => \E k \in DOMAIN CHARSETS : Lower(call.name) = Spelling[k]

\* get_charset("invalid_charset_name") raised ValueError.
C28_Witness ==
    /\ call.name = <<105, 110, 118, 97, 108, 105, 100, 95, 99, 104, 97, 114,
                     115, 101, 116, 95, 110, 97, 109, 101>>
    /\ returned.fn = "get_charset"
    /\ returned.outcome = "ValueError"

\* get_charset("STANDARD") returned the standard charset.
C28_WitnessUpper ==
    /\ call.name = <<83, 84, 65, 78, 68, 65, 82, 68>>
    /\ returned.fn = "get_charset"
    /\ returned.charset = STANDARD_CHARSET

\* The player process worker w launched has ended on its own, at the end
\* of the audio or by a crash; the worker has finished after it.
EndedOnItsOwn(w) == procState[w] = "exited"
Finished(w) == EndedOnItsOwn(w) /\ wpc[w] = "done"

\* C29: when the player process ends on its own or fails mid-stream, the
\* worker waiting for it is not blocked and its next steps set is_playing
\* to False; no player is launched again; is_playing stays False, and
\* every wait_for_frame that tests is_playing after that takes the wall
\* clock time since start() as the actual time.
C29_EndLeavesPlaying ==
    /\ [](\A w \in Workers :
             (Alive /\ wpc[w] = "waiting" /\ EndedOnItsOwn(waitOn[w]))
                => ENABLED WorkerWaitReturn(w))
    /\ [](\A w \in Workers :
             (Alive /\ wpc[w] = "clear") => ENABLED WorkerClearPlaying(w))
    /\ [][\A w \in Workers :
             /\ (EndedOnItsOwn(w) /\ wpc[w] = "waiting" /\ wpc'[w] # "waiting")
                   => wpc'[w] = "clear"
             /\ (EndedOnItsOwn(w) /\ wpc[w] = "clear" /\ wpc'[w] # "clear")
                   => (wpc'[w] = "done" /\ ~is_playing')
             /\ EndedOnItsOwn(w)
                   => /\ EndedOnItsOwn(w)'
                      /\ wpc'[w] \in {"assign", "wait_call", "waiting",
                                      "clear", "done"}
                      /\ \A v \in Workers :
                            procState'[v] = "running"
                               => procState[v] = "running"
             /\ Finished(w) => (Finished(w)' /\ ~is_playing')
             /\ (Finished(w) /\ mainPc = "wf_check"
                 /\ mainPc' \in {"wf_gcpt", "wf_decide"})
                   => /\ mainPc' = "wf_decide"
                      /\ actual_time' = now - start_time]_vars

\* The audio started after start(), the player ended on its own, and a
\* later wait_for_frame took the time since start(), which is not the time
\* since the audio started.
C29_Witness ==
    \E w \in Workers :
       /\ Finished(w)
       /\ "playing" \in wDone[w]
       /\ ~is_playing
       /\ mainPc = "wf_decide"
       /\ actual_time = now - start_time
       /\ playback_start_time # NoTime
       /\ playback_start_time > start_time

\* C30: the worker tries the candidate players of the platform in their
\* fixed order: a candidate that cannot be launched is skipped and the next
\* one is tried; the first candidate that launches is used and none is
\* tried after it; when every candidate has failed no player runs, the
\* worker clears is_playing and nothing is raised into the main thread.
C30_CandidatesInOrder ==
    [][\A w \in Workers :
          /\ (wpc[w] = "launch" /\ wCands[w] # <<>>
              /\ <<wpc[w], wCands[w], procState[w]>>'
                    # <<wpc[w], wCands[w], procState[w]>>)
                => \/ /\ procState'[w] = "running"
                      /\ wCands'[w] = <<>>
                      /\ wpc'[w] = "assign"
                   \/ /\ procState'[w] = procState[w]
                      /\ wCands'[w] = Tail(wCands[w])
                      /\ \/ wpc'[w] = "launch"
                         \/ wCands'[w] = <<>> /\ wpc'[w] = "clear"
          /\ (wpc[w] = "launch" /\ wCands[w] = <<>> /\ wpc'[w] # "launch")
                => /\ wpc'[w] = "clear"
                   /\ procState'[w] = procState[w]
                   /\ mainPc' = mainPc
          /\ (wpc[w] # "launch" /\ wpc'[w] = "launch")
                => \E p \in Platforms : wCands'[w] = Candidates(p)
          /\ (wpc[w] \notin {"delay", "launch"}) => wpc'[w] # "launch"]_vars

\* C31: the first time the decoder reports no frame, at the end of the
\* stream or on a decode failure, get_frames terminates: the failed read
\* is not retried, and once the generator has ended no frame is read and
\* none is yielded.
C31_NoFrameEndsIteration ==
    /\ []((returned.fn = "cap.read" /\ ~returned.ret)
             => mainPc \in {"vp_end", "vp_deleted"})
    /\ [][(mainPc \in {"vp_end", "vp_deleted"})
             => /\ UNCHANGED <<decoded, yielded, out, frame_num, returned>>
                /\ mainPc' \in {"vp_end", "vp_deleted"}]_vars

\* A read failed in mid-stream after a frame was yielded: the decoder is
\* open and has frames left, and the generator has ended.
C31_Witness ==
    /\ returned.fn = "cap.read"
    /\ ~returned.ret
    /\ mainPc = "vp_end"
    /\ capOpen
    /\ yielded > 0
    /\ decoded < stream

\* C32: the frame duration of the scheduler is strictly positive for every
\* frame rate: it is 1 / fps when fps > 0 and the fallback 0.033 when fps
\* is zero or negative; VideoProcessor takes fps = 30 when the decoder
\* reports 0 and the reported rate otherwise; and the expected time of a
\* frame is strictly below that of the next frame.
C32_PositiveFrameDuration ==
    call.fn = "wait_for_frame" =>
       LET fd == FrameDuration(call.fps)
       IN  /\ ExactLess(F64Zero, fd)
           /\ call.fps > 0 => NearestTo(fd, 1, call.fps)
           /\ call.fps <= 0 => NearestTo(fd, 33, 1000)
           /\ ProcessorFps(call.cap_fps) =
                 IF call.cap_fps = 0 THEN 30 ELSE call.cap_fps
           /\ Len(returned.expected_time) = 2 =>
                 ExactLess(returned.expected_time[1],
                           returned.expected_time[2])

\* A synchronizer built with fps = 0 scheduled two frames some way into
\* the stream.
C32_Witness ==
    /\ call.fn = "wait_for_frame"
    /\ call.fps = 0
    /\ call.frame_count > 0
    /\ Len(returned.expected_time) = 2

\* The decoder reported 0 and the synchronizer of the player, built with
\* fps = 30, scheduled two frames.
C32_WitnessDefaultFps ==
    /\ call.fn = "wait_for_frame"
    /\ call.cap_fps = 0
    /\ call.fps = 30
    /\ Len(returned.expected_time) = 2

\* Worker w belongs to the latest play_async() call, that call has
\* returned, and an earlier worker had been started before it.
NewSession(w) ==
    /\ w > 1
    /\ wpc[w] # "idle"
    /\ \A v \in DOMAIN wpc : v > w => wpc[v] = "idle"
    /\ mainPc = "try_enter"

\* C33: when play_async() is called while an earlier worker is still
\* alive, the earlier worker never changes the state of the new session:
\* while the player process of the new session is running, its worker has
\* stored the handle and stop() was not called since, is_playing is True
\* and playback_process refers to the process of the new session.
C33_NewSessionUndisturbed ==
    \A w \in DOMAIN wpc :
       (NewSession(w) /\ procState[w] = "running"
        /\ wpc[w] \in {"wait_call", "waiting"})
          => (is_playing /\ playback_process = w)

\* No channel of the pixel is strictly above the two others.
NoDominantChannel ==
    /\ ~(rgb[1] > rgb[2] /\ rgb[1] > rgb[3])
    /\ ~(rgb[2] > rgb[1] /\ rgb[2] > rgb[3])
    /\ ~(rgb[3] > rgb[1] /\ rgb[3] > rgb[2])

\* C34: rgb_to_ansi_16 returns one of 30, 31, 32, 33, 34 and 37, never
\* magenta 35 or cyan 36; a pixel of middle brightness without a strictly
\* dominant channel gets yellow 33 exactly when r = g > b and blue 34
\* otherwise; green 32 is only ever given to a strictly dominant green, so
\* the last `g > b` test never succeeds.
C34_SixCodes ==
    (colored # <<>> /\ ~use_truecolor /\ ~use_256_colors) =>
       LET brightness == (rgb[1] + rgb[2] + rgb[3]) \div 3
       IN  /\ Code16 \in {30, 31, 32, 33, 34, 37}
           /\ (brightness >= 50 /\ brightness <= 200 /\ NoDominantChannel)
                 => Code16 = IF rgb[1] = rgb[2] /\ rgb[2] > rgb[3]
                             THEN 33 ELSE 34
           /\ Code16 = 32 => (rgb[2] > rgb[1] /\ rgb[2] > rgb[3])

\* A pixel of middle brightness with r = g > b was coloured yellow in
\* 16-colour mode.
C34_Witness ==
    /\ ~use_truecolor /\ ~use_256_colors
    /\ rgb = <<128, 128, 76>>
    /\ colored # <<>>
    /\ Code16 = 33

====
